---- MODULE Spec2Model ----
(***************************************************************************)
(* Technician matching and team-composition engine of JobPilot:            *)
(*   - AirtableService (src/unnamed/part_002): directory client, candidate *)
(*     filter (checkTechnicianAvailability) and deterministic scorer       *)
(*     (calculateMatchScore);                                              *)
(*   - ClaudeMatchingService (src/server/routes.ts, lines 507-1072): AI    *)
(*     reasoning adapter, team composition resolver, job analyzer.         *)
(* JavaScript strings are TLA+ strings; a property that may be missing on  *)
(* a JavaScript object is a field that may be missing from the record's    *)
(* DOMAIN; dates are day numbers (new Date(s) is order preserving on the   *)
(* ISO dates the directory returns).                                       *)
(***************************************************************************)
EXTENDS Integers, Sequences, FiniteSets, TLC

(***************************************************************************)
(* Bounds of the model.                                                    *)
(***************************************************************************)
\* most 429 answers the directory server gives
Max429 == 1
\* how far the clock runs, in 30 s steps
MaxTicks == 3
\* most candidates a reply member is reconciled against
MaxCandidates == 2
\* most certifications a scored technician holds
MaxCerts == 4
\* longest availability list checkTechnicianAvailability is given
MaxPeriods == 2
\* most members in a team the reasoning service returns
MaxAIMembers == 2
\* largest techsNeeded value a job asks for
MaxTechsNeeded == 3
\* longest technician list the directory returns
MaxTechnicians == 3
\* Most technicians the directory returns for a fallbackRanking call
MaxRanked == 5
\* Most calls of info, warn, error and debug followed from one initial state
MaxLogCalls == 2

(***************************************************************************)
(* JavaScript string primitives.                                           *)
(***************************************************************************)
UpperChars == "ABCDEFGHIJKLMNOPQRSTUVWXYZ"
LowerChars == "abcdefghijklmnopqrstuvwxyz"
DigitChars == "0123456789"

CharAt(str, i) == SubSeq(str, i, i)

lowerChar(c) ==
    IF \E k \in 1..Len(UpperChars) : CharAt(UpperChars, k) = c
    THEN CharAt(LowerChars, CHOOSE k \in 1..Len(UpperChars) : CharAt(UpperChars, k) = c)
    ELSE c

\* String.prototype.toLowerCase
RECURSIVE toLowerCase(_)
toLowerCase(str) ==
    IF Len(str) = 0 THEN ""
    ELSE lowerChar(CharAt(str, 1)) \o toLowerCase(SubSeq(str, 2, Len(str)))

\* String.prototype.includes
includes(str, sub) ==
    \E i \in 0..(Len(str) - Len(sub)) : SubSeq(str, i + 1, i + Len(sub)) = sub

\* Array.prototype.some over a sequence, P a predicate on elements
some(seq, P(_)) == \E i \in 1..Len(seq) : P(seq[i])

isDigit(c) == \E k \in 1..Len(DigitChars) : CharAt(DigitChars, k) = c
digitValue(c) == (CHOOSE k \in 1..Len(DigitChars) : CharAt(DigitChars, k) = c) - 1

RECURSIVE parseDigits(_, _)
parseDigits(str, acc) ==
    IF Len(str) = 0 THEN acc
    ELSE parseDigits(SubSeq(str, 2, Len(str)), 10 * acc + digitValue(CharAt(str, 1)))

\* Number(x) || 1 of rankTechnicians and fallbackRanking, x = jobDetails.techsNeeded:
\* null/undefined and "" convert to 0, a digit string to its value, any other
\* string to NaN; 0 and NaN are falsy and give 1.
requiredTeamSizeOf(jobDetails) ==
    IF "techsNeeded" \notin DOMAIN jobDetails THEN 1
    ELSE LET s == jobDetails.techsNeeded IN
         IF Len(s) = 0 THEN 1
         ELSE IF \A i \in 1..Len(s) : isDigit(CharAt(s, i))
              THEN (IF parseDigits(s, 0) = 0 THEN 1 ELSE parseDigits(s, 0))
              ELSE 1

\* String(n) of a natural number
RECURSIVE numberToString(_)
numberToString(n) ==
    IF n < 10 THEN CharAt(DigitChars, n + 1)
    ELSE numberToString(n \div 10) \o CharAt(DigitChars, (n % 10) + 1)

Min(a, b) == IF a <= b THEN a ELSE b
Max(a, b) == IF a >= b THEN a ELSE b

(***************************************************************************)
(* AirtableService: candidate filter and deterministic scorer.             *)
(***************************************************************************)
\* One availability record: does the job date fall within its period?
\* (jobDateTime >= startDate && (!endDate || jobDateTime <= endDate))
isInPeriod(record, jobDate) ==
    /\ jobDate >= record.StartDate
    /\ ("EndDate" \notin DOMAIN record \/ jobDate <= record.EndDate)

\* checkTechnicianAvailability: the for loop over the records in list order,
\* record i being the one examined; falls through to availability.length === 0.
RECURSIVE availabilityLoop(_, _, _)
availabilityLoop(availability, jobDate, i) ==
    IF i > Len(availability) THEN Len(availability) = 0
    ELSE IF isInPeriod(availability[i], jobDate) /\ availability[i].PeriodType = "Available"
         THEN TRUE
    ELSE IF isInPeriod(availability[i], jobDate)
            /\ availability[i].PeriodType \in {"Unavailable", "Booked"}
         THEN FALSE
    ELSE availabilityLoop(availability, jobDate, i + 1)

\* Mutant of checkTechnicianAvailability: a denying period wins wherever it stands.
checkTechnicianAvailabilityDenyWins(availability, jobDate) ==
    IF \E k \in 1..Len(availability) :
          /\ isInPeriod(availability[k], jobDate)
          /\ availability[k].PeriodType \in {"Unavailable", "Booked"}
    THEN FALSE
    ELSE IF \E k \in 1..Len(availability) :
               /\ isInPeriod(availability[k], jobDate)
               /\ availability[k].PeriodType = "Available"
         THEN TRUE
    ELSE Len(availability) = 0

checkTechnicianAvailability(availability, jobDate) ==
    availabilityLoop(availability, jobDate, 1)

\* certifications.some(c => c.toLowerCase().includes(keyword))
certHas(certifications, keyword) ==
    some(certifications, LAMBDA c : includes(toLowerCase(c), keyword))

\* keywords.some(keyword => certifications.some(...))
anyKeyword(keywords, certifications) ==
    \E k \in keywords : certHas(certifications, k)

ndt_keywords == {"ndt", "non-destructive", "testing", "inspection", "asnt"}
safety_keywords == {"rope", "access", "confined", "space", "safety", "osha", "cswip", "nace"}
industry_keywords == {"aws", "asme", "api", "pipeline", "offshore", "subsea"}

\* Mutant of disciplineBonus: for a UT job the best certification earns the least.
disciplineBonusInverted(certifications, jobTypeLower) ==
    IF includes(jobTypeLower, "ut") \/ includes(jobTypeLower, "ultrasonic")
    THEN (IF certHas(certifications, "ut level ii") \/ certHas(certifications, "ut-2")
          THEN 0
          ELSE IF certHas(certifications, "ut") THEN 25 ELSE 35)
    ELSE 0

\* The discipline blocks of calculateMatchScore.
disciplineBonus(certifications, jobTypeLower) ==
      (IF includes(jobTypeLower, "ut") \/ includes(jobTypeLower, "ultrasonic")
       THEN (IF certHas(certifications, "ut level ii") \/ certHas(certifications, "ut-2")
             THEN 35
             ELSE IF certHas(certifications, "ut level i") \/ certHas(certifications, "ut-1")
                     \/ certHas(certifications, "ut")
                  THEN 25 ELSE 0)
       ELSE 0)
    + (IF includes(jobTypeLower, "rt") \/ includes(jobTypeLower, "radiograph")
       THEN (IF certHas(certifications, "rt level ii") \/ certHas(certifications, "rt-2")
             THEN 35
             ELSE IF certHas(certifications, "rt level i") \/ certHas(certifications, "rt-1")
                     \/ certHas(certifications, "rt")
                  THEN 25 ELSE 0)
       ELSE 0)
    + (IF (includes(jobTypeLower, "mt") \/ includes(jobTypeLower, "magnetic"))
          /\ certHas(certifications, "mt")
       THEN 30 ELSE 0)
    + (IF (includes(jobTypeLower, "pt") \/ includes(jobTypeLower, "penetrant"))
          /\ certHas(certifications, "pt")
       THEN 30 ELSE 0)
    + (IF (includes(jobTypeLower, "vt") \/ includes(jobTypeLower, "visual"))
          /\ certHas(certifications, "vt")
       THEN 25 ELSE 0)

\* Mutant of breadthBonus: one flat bonus from two certifications on.
breadthBonusFlat(certifications) ==
    IF Len(certifications) >= 2 THEN 5 ELSE 0

\* Multiple certifications bonus.
breadthBonus(certifications) ==
    IF Len(certifications) >= 4 THEN 15
    ELSE IF Len(certifications) >= 3 THEN 10
    ELSE IF Len(certifications) >= 2 THEN 5
    ELSE 0

\* Mutant of calculateMatchScore: the sum is returned without the cap.
calculateMatchScoreUncapped(technician, jobType) ==
    IF Len(jobType) = 0 THEN 50
    ELSE LET certifications == IF "Certifications" \in DOMAIN technician
                               THEN technician.Certifications ELSE <<>>
         IN 35 + disciplineBonus(certifications, toLowerCase(jobType))
               + (IF anyKeyword(ndt_keywords, certifications) THEN 10 ELSE 0)
               + breadthBonus(certifications)
               + (IF anyKeyword(safety_keywords, certifications) THEN 12 ELSE 0)
               + (IF anyKeyword(industry_keywords, certifications) THEN 8 ELSE 0)

\* calculateMatchScore(technician, jobType); an absent or empty jobType is falsy.
calculateMatchScore(technician, jobType) ==
    IF Len(jobType) = 0 THEN 50
    ELSE LET certifications == IF "Certifications" \in DOMAIN technician
                               THEN technician.Certifications ELSE <<>>
             jobTypeLower == toLowerCase(jobType)
             score == 35
                      + disciplineBonus(certifications, jobTypeLower)
                      + (IF anyKeyword(ndt_keywords, certifications) THEN 10 ELSE 0)
                      + breadthBonus(certifications)
                      + (IF anyKeyword(safety_keywords, certifications) THEN 12 ELSE 0)
                      + (IF anyKeyword(industry_keywords, certifications) THEN 8 ELSE 0)
         IN Min(score, 100)

\* Array.prototype.sort((a, b) => b.key - a.key): stable, descending. Element
\* i lands after every element with a greater key and every earlier element
\* with an equal key.
sortDesc(seq, key(_)) ==
    LET rank(i) == 1 + Cardinality({j \in 1..Len(seq) :
                         \/ key(seq[j]) > key(seq[i])
                         \/ (key(seq[j]) = key(seq[i]) /\ j < i)})
    IN [p \in 1..Len(seq) |-> seq[CHOOSE i \in 1..Len(seq) : rank(i) = p]]

\* The body of findAvailableTechnicians once both directory queries have
\* returned: filter by availability, score, sort by matchScore descending.
availableMatches(technicians, availabilityRecords, jobDate, jobType) ==
    LET techAvailability(t) ==
            SelectSeq(availabilityRecords,
                      LAMBDA r : some(r.Technician, LAMBDA id : id = t.id))
        kept == SelectSeq(technicians,
                          LAMBDA t : checkTechnicianAvailability(techAvailability(t), jobDate))
        results == [i \in 1..Len(kept) |->
                      [technician |-> kept[i],
                       availability |-> techAvailability(kept[i]),
                       matchScore |-> calculateMatchScore(kept[i], jobType)]]
    IN sortDesc(results, LAMBDA r : r.matchScore)


(***************************************************************************)
(* ClaudeMatchingService: deterministic paths.                             *)
(***************************************************************************)
\* Array.prototype.join
RECURSIVE join(_, _)
join(seq, sep) ==
    IF Len(seq) = 0 THEN ""
    ELSE IF Len(seq) = 1 THEN seq[1]
    ELSE seq[1] \o sep \o join(SubSeq(seq, 2, Len(seq)), sep)

\* Array.prototype.slice(from, to) with 0 <= from, as a sequence
slice(seq, from, to) == SubSeq(seq, from + 1, Min(to, Len(seq)))

\* A property copied from an object that may lack it: { f: rec.f }
NoFields == [k \in {} |-> ""]
optional(rec, f) == IF f \in DOMAIN rec THEN [k \in {f} |-> rec[f]] ELSE NoFields

Returned(v) == [threw |-> FALSE, value |-> v]
Thrown(e) == [threw |-> TRUE, error |-> e]

\* Mutant of fallbackJobAnalysis: complexity from the number of detections,
\* a detection adding one or two skills.
fallbackJobAnalysisByDetections(jobDetails) ==
    LET jobType == toLowerCase(IF "jobType" \in DOMAIN jobDetails
                               THEN jobDetails.jobType ELSE "")
        description == toLowerCase(IF "bodyPlain" \in DOMAIN jobDetails
                                   THEN jobDetails.bodyPlain ELSE "")
        detections ==
            Cardinality({d \in {<<"ut", "ultrasonic">>, <<"rt", "radiograph">>,
                                <<"mt", "magnetic">>} :
                            includes(jobType, d[1]) \/ includes(description, d[2])})
            + (IF includes(description, "rope") \/ includes(description, "access")
               THEN 1 ELSE 0)
            + (IF includes(description, "confined") \/ includes(description, "space")
               THEN 1 ELSE 0)
        complexity == IF detections >= 3 THEN "complex"
                      ELSE IF detections <= 1 THEN "simple"
                      ELSE "moderate"
    IN [requiredSkills |->
               (IF includes(jobType, "ut") \/ includes(description, "ultrasonic")
                THEN <<"UT Level I", "UT Level II">> ELSE <<>>)
            \o (IF includes(jobType, "rt") \/ includes(description, "radiograph")
                THEN <<"RT Level I", "RT Level II">> ELSE <<>>)
            \o (IF includes(jobType, "mt") \/ includes(description, "magnetic")
                THEN <<"MT Level I">> ELSE <<>>)
            \o (IF includes(description, "rope") \/ includes(description, "access")
                THEN <<"Rope Access">> ELSE <<>>)
            \o (IF includes(description, "confined") \/ includes(description, "space")
                THEN <<"Confined Space">> ELSE <<>>),
        complexity |-> complexity,
        estimatedDuration |-> IF complexity = "simple" THEN "2-4 hours"
                              ELSE IF complexity = "complex" THEN "Full day"
                              ELSE "Half day",
        recommendations |-> <<"Verify technician certifications are current",
                              "Confirm equipment availability",
                              "Review safety protocols for location">>]

\* fallbackJobAnalysis(jobDetails); jobType and bodyPlain may be missing.
fallbackJobAnalysis(jobDetails) ==
    LET jobType == toLowerCase(IF "jobType" \in DOMAIN jobDetails
                               THEN jobDetails.jobType ELSE "")
        description == toLowerCase(IF "bodyPlain" \in DOMAIN jobDetails
                                   THEN jobDetails.bodyPlain ELSE "")
        requiredSkills ==
               (IF includes(jobType, "ut") \/ includes(description, "ultrasonic")
                THEN <<"UT Level I", "UT Level II">> ELSE <<>>)
            \o (IF includes(jobType, "rt") \/ includes(description, "radiograph")
                THEN <<"RT Level I", "RT Level II">> ELSE <<>>)
            \o (IF includes(jobType, "mt") \/ includes(description, "magnetic")
                THEN <<"MT Level I">> ELSE <<>>)
            \o (IF includes(description, "rope") \/ includes(description, "access")
                THEN <<"Rope Access">> ELSE <<>>)
            \o (IF includes(description, "confined") \/ includes(description, "space")
                THEN <<"Confined Space">> ELSE <<>>)
        complexity == IF Len(requiredSkills) >= 3 THEN "complex"
                      ELSE IF Len(requiredSkills) <= 1 THEN "simple"
                      ELSE "moderate"
    IN [requiredSkills |-> requiredSkills,
        complexity |-> complexity,
        estimatedDuration |-> IF complexity = "simple" THEN "2-4 hours"
                              ELSE IF complexity = "complex" THEN "Full day"
                              ELSE "Half day",
        recommendations |-> <<"Verify technician certifications are current",
                              "Confirm equipment availability",
                              "Review safety protocols for location">>]

\* The score fallbackRanking gives one candidate (it does not read matchScore).
fallbackScore(jobDetails, t) ==
    LET jobType == toLowerCase(jobDetails.jobType)
        certifications == t.technician.Certifications
        score == 50
                 + (IF includes(jobType, "ut") /\ certHas(certifications, "ut") THEN 30 ELSE 0)
                 + (IF includes(jobType, "rt") /\ certHas(certifications, "rt") THEN 30 ELSE 0)
                 + (IF some(t.availability, LAMBDA a : a.PeriodType = "Available")
                    THEN 10 ELSE 0)
    IN Min(100, Max(0, score))

\* The member fallbackRanking builds for one candidate, before the sort.
fallbackMember(jobDetails, t) ==
    LET certifications == t.technician.Certifications IN
    [technician |-> [id |-> t.technician.id,
                     name |-> t.technician.Name,
                     certifications |-> certifications,
                     status |-> t.technician.Status],
     confidenceScore |-> fallbackScore(jobDetails, t),
     role |-> "Support",
     reasoning |-> <<"Basic match for "
                     \o (IF Len(jobDetails.jobType) = 0 THEN "job" ELSE jobDetails.jobType)>>
                   \o (IF Len(certifications) > 0
                       THEN <<"Has certifications: " \o join(certifications, ", ")>>
                       ELSE <<>>)
                   \o (IF Len(t.availability) > 0 THEN <<"Has availability records">> ELSE <<>>),
     availabilityStatus |-> "Good"]

\* Role of the member at 0-based index in the recommended team.
recommendedRole(member, index, requiredTeamSize) ==
    IF index = 0 /\ requiredTeamSize > 1 THEN "Lead"
    ELSE IF member.confidenceScore > 70 /\ requiredTeamSize > 1 THEN "Specialist"
    ELSE "Support"

\* Role of the member at 0-based index in an alternative team.
alternativeRole(member, index, requiredTeamSize) ==
    IF index = 0 /\ requiredTeamSize > 1 THEN "Lead" ELSE "Support"

withRoles(members, role(_, _, _), requiredTeamSize) ==
    [k \in 1..Len(members) |->
        [members[k] EXCEPT !.role = role(members[k], k - 1, requiredTeamSize)]]

\* Mutant of alternativeTeamAt: the window of loop index i starts at rank i.
alternativeTeamAtRank(allMembers, i, requiredTeamSize) ==
    LET altMembers == withRoles(slice(allMembers, i, i + requiredTeamSize),
                                alternativeRole, requiredTeamSize)
    IN IF Len(altMembers) = requiredTeamSize
       THEN <<[size |-> requiredTeamSize,
               members |-> altMembers,
               teamReasoning |-> "Alternative " \o numberToString(i + 1)
                                 \o ": Backup team with "
                                 \o altMembers[1].technician.name \o " leading"]>>
       ELSE <<>>

\* The alternative team of loop index i (0-based), or no team when the window
\* is shorter than requiredTeamSize.
alternativeTeamAt(allMembers, i, requiredTeamSize) ==
    LET altMembers == withRoles(slice(allMembers, i + 1, i + 1 + requiredTeamSize),
                                alternativeRole, requiredTeamSize)
    IN IF Len(altMembers) = requiredTeamSize
       THEN <<[size |-> requiredTeamSize,
               members |-> altMembers,
               teamReasoning |-> "Alternative " \o numberToString(i + 1)
                                 \o ": Backup team with "
                                 \o altMembers[1].technician.name \o " leading"]>>
       ELSE <<>>

RECURSIVE alternativeTeamsFrom(_, _, _)
alternativeTeamsFrom(allMembers, i, requiredTeamSize) ==
    IF i >= Min(2, Len(allMembers) - requiredTeamSize) THEN <<>>
    ELSE alternativeTeamAt(allMembers, i, requiredTeamSize)
         \o alternativeTeamsFrom(allMembers, i + 1, requiredTeamSize)

\* fallbackRanking(jobDetails, availableTechnicians). Reading
\* recommendedMembers[0].technician of an empty team is a TypeError.
fallbackRanking(jobDetails, availableTechnicians) ==
    LET requiredTeamSize == requiredTeamSizeOf(jobDetails)
        allMembers == sortDesc([k \in 1..Len(availableTechnicians) |->
                                   fallbackMember(jobDetails, availableTechnicians[k])],
                               LAMBDA m : m.confidenceScore)
        recommendedMembers == withRoles(slice(allMembers, 0, requiredTeamSize),
                                        recommendedRole, requiredTeamSize)
        alternativeTeams == IF Len(allMembers) > requiredTeamSize
                            THEN alternativeTeamsFrom(allMembers, 0, requiredTeamSize)
                            ELSE <<>>
    IN IF requiredTeamSize > 1 /\ Len(recommendedMembers) = 0
       THEN Thrown("TypeError")
       ELSE Returned(
              [recommendedTeam |->
                 IF requiredTeamSize > 1
                 THEN [size |-> Len(recommendedMembers),
                       members |-> recommendedMembers,
                       teamDynamics |-> "Team of " \o numberToString(requiredTeamSize)
                                        \o " with " \o recommendedMembers[1].technician.name
                                        \o " as lead technician",
                       coordinationPlan |->
                           recommendedMembers[1].technician.name
                           \o " (Lead) coordinates team. Roles: "
                           \o join([k \in 1..Len(recommendedMembers) |->
                                       recommendedMembers[k].technician.name \o " ("
                                       \o recommendedMembers[k].role \o ")"], ", ")]
                 ELSE [size |-> Len(recommendedMembers),
                       members |-> recommendedMembers],
               alternativeTeams |-> alternativeTeams])


(***************************************************************************)
(* ClaudeMatchingService: AI path. A reply of the reasoning service is a   *)
(* record [kind |-> ...]:                                                  *)
(*   "network"  fetch rejects                                              *)
(*   "status"   response.ok is false                                       *)
(*   "body"     response.json() rejects (the body is not JSON)             *)
(*   "nontext"  data.content[0].type is not 'text'                         *)
(*   "badjson"  JSON.parse(content.text) throws                            *)
(*   "json"     JSON.parse returns the object in field json                *)
(***************************************************************************)
\* techniciansData of rankTechnicians
techniciansDataOf(availableTechnicians) ==
    [k \in 1..Len(availableTechnicians) |->
        LET t == availableTechnicians[k] IN
        [id |-> t.technician.id,
         name |-> t.technician.Name,
         certifications |-> t.technician.Certifications,
         status |-> t.technician.Status,
         availability |-> [j \in 1..Len(t.availability) |->
                              [periodType |-> t.availability[j].PeriodType,
                               startDate |-> t.availability[j].StartDate]
                              @@ (IF "EndDate" \in DOMAIN t.availability[j]
                                  THEN [endDate |-> t.availability[j].EndDate]
                                  ELSE NoFields)]]]

\* member.f || dflt, for a string or array property (undefined and "" are falsy)
orDefault(member, f, dflt) ==
    IF f \in DOMAIN member /\ Len(member[f]) > 0 THEN member[f] ELSE dflt

\* The predicate of techniciansData.find in processMembers. An undefined
\* member.name is searched for as the string "undefined" by String.includes.
memberMatches(t, member) ==
    \/ toLowerCase(t.name) = toLowerCase(orDefault(member, "name", ""))
    \/ ("id" \in DOMAIN member /\ t.id = member.id)
    \/ includes(t.name, IF "name" \in DOMAIN member THEN member.name ELSE "undefined")
    \/ includes(orDefault(member, "name", ""), t.name)

\* The number NaN, and in a reply a score that is not numeric (a string such
\* as "high", an object): truthy, and NaN once Math.min converts it.
NaN == 0 - 1000000

\* Math.max(0, Math.min(100, member.confidenceScore || 50)); Math.min and
\* Math.max return NaN when an argument is NaN.
clampScore(member) ==
    LET raw == IF "confidenceScore" \in DOMAIN member /\ member.confidenceScore # 0
               THEN member.confidenceScore ELSE 50
    IN IF raw = NaN THEN NaN ELSE Max(0, Min(100, raw))

validRole(member) ==
    IF "role" \in DOMAIN member /\ member.role \in {"Lead", "Specialist", "Support"}
    THEN member.role ELSE "Support"

\* processMembers, one member
processMember(techniciansData, jobDetails, member) ==
    LET found == {k \in 1..Len(techniciansData) : memberMatches(techniciansData[k], member)}
        reasoning == IF "reasoning" \in DOMAIN member THEN member.reasoning
                     ELSE <<"Matched for " \o jobDetails.jobType \o " job">>
    IN IF found = {}
       THEN [technician |-> [id |-> orDefault(member, "id", "unknown"),
                             name |-> orDefault(member, "name", "Unknown Technician"),
                             certifications |-> <<>>,
                             status |-> "Unknown"],
             confidenceScore |-> clampScore(member),
             role |-> validRole(member),
             reasoning |-> reasoning,
             availabilityStatus |-> orDefault(member, "availabilityStatus", "Unknown")]
       ELSE [technician |-> techniciansData[CHOOSE k \in found : \A j \in found : k <= j],
             confidenceScore |-> clampScore(member),
             role |-> validRole(member),
             reasoning |-> reasoning,
             availabilityStatus |-> orDefault(member, "availabilityStatus", "Good")]

processMembers(techniciansData, jobDetails, members) ==
    [k \in 1..Len(members) |-> processMember(techniciansData, jobDetails, members[k])]

\* The try block of rankTechnicians after JSON.parse, for a reply whose
\* structure passed validation. altTeam.members.map of an alternative team
\* without members is a TypeError.
rankFromReply(jobDetails, availableTechnicians, teamResponse) ==
    LET techniciansData == techniciansDataOf(availableTechnicians)
        recommendedTeamMembers ==
            processMembers(techniciansData, jobDetails, teamResponse.recommendedTeam.members)
        alts == IF "alternativeTeams" \in DOMAIN teamResponse
                THEN teamResponse.alternativeTeams ELSE <<>>
    IN IF \E k \in 1..Len(alts) : "members" \notin DOMAIN alts[k]
       THEN Thrown("TypeError")
       ELSE Returned(
              [recommendedTeam |->
                  [size |-> Len(recommendedTeamMembers),
                   members |-> recommendedTeamMembers]
                  @@ optional(teamResponse.recommendedTeam, "teamDynamics")
                  @@ optional(teamResponse.recommendedTeam, "coordinationPlan"),
               alternativeTeams |->
                  [k \in 1..Len(alts) |->
                      [size |-> IF "size" \in DOMAIN alts[k] /\ alts[k].size # 0
                                THEN alts[k].size ELSE Len(alts[k].members),
                       members |-> processMembers(techniciansData, jobDetails, alts[k].members),
                       teamReasoning |-> orDefault(alts[k], "teamReasoning",
                                                   "Alternative team composition")]]])

\* Mutant of rankCatch: the catch block rethrows.
rankCatchRethrows(jobDetails, availableTechnicians, attempt) == attempt

\* The catch block of rankTechnicians
rankCatch(jobDetails, availableTechnicians, attempt) ==
    IF attempt.threw THEN fallbackRanking(jobDetails, availableTechnicians) ELSE attempt

\* rankTechnicians from the reply of the reasoning service on (isConfigured and
\* a non-empty candidate list); the result is Returned(..) or Thrown(..).
rankOnReply(jobDetails, availableTechnicians, reply) ==
    rankCatch(jobDetails, availableTechnicians,
        IF reply.kind # "json" THEN Thrown(reply.kind)
        ELSE IF \/ "recommendedTeam" \notin DOMAIN reply.json
                \/ "members" \notin DOMAIN reply.json.recommendedTeam
             THEN fallbackRanking(jobDetails, availableTechnicians)
        ELSE rankFromReply(jobDetails, availableTechnicians, reply.json))

\* analyzeJobRequirements from the reply of the reasoning service
analyzeOnReply(jobDetails, reply) ==
    IF reply.kind # "json" THEN fallbackJobAnalysis(jobDetails)
    ELSE [requiredSkills |-> IF "requiredSkills" \in DOMAIN reply.json
                             THEN reply.json.requiredSkills ELSE <<>>,
          complexity |-> orDefault(reply.json, "complexity", "moderate"),
          estimatedDuration |-> orDefault(reply.json, "estimatedDuration", "Half day"),
          recommendations |-> IF "recommendations" \in DOMAIN reply.json
                              THEN reply.json.recommendations ELSE <<>>]


(***************************************************************************)
(* Inputs: what the directory holds and what a job asks for.               *)
(***************************************************************************)
Tech1 == [id |-> "rec1", Name |-> "Jane Doe",
          Certifications |-> <<"UT Level II">>, Status |-> "Active"]
Tech2 == [id |-> "rec2", Name |-> "Bob Ray",
          Certifications |-> <<"RT Level I", "Rope Access">>, Status |-> "Active"]
Tech3 == [id |-> "rec3", Name |-> "Al", Certifications |-> <<>>, Status |-> "Active"]
Technicians == {Tech1, Tech2, Tech3}

\* The technician lists a directory query returns: distinct records, any order.
TechnicianLists ==
    {l \in UNION {[1..n -> Technicians] : n \in 0..MaxTechnicians} :
        \A i, j \in 1..Len(l) : i # j => l[i] # l[j]}

Avail1 == [Technician |-> <<"rec1">>, PeriodType |-> "Available", StartDate |-> 1, EndDate |-> 2]
Avail2 == [Technician |-> <<"rec2">>, PeriodType |-> "Booked", StartDate |-> 2]
AvailabilityLists == {<<>>, <<Avail1>>, <<Avail2, Avail1>>}
JobDates == {2}

TechsNeededValues == {numberToString(n) : n \in 1..MaxTechsNeeded}
JobTexts == {[jobType |-> "", bodyPlain |-> ""],
             [jobType |-> "UT", bodyPlain |-> "ultrasonic rope access"],
             [jobType |-> "RT", bodyPlain |-> ""]}
\* JobDetails, techsNeeded null (absent) or a numeral
Jobs == JobTexts \cup {j @@ [techsNeeded |-> n] : j \in JobTexts, n \in TechsNeededValues}

NoJob == [jobType |-> "", bodyPlain |-> ""]

\* Members a reply of the reasoning service may name.
AIMember1 == [name |-> "jane doe", role |-> "Lead", confidenceScore |-> 85,
              reasoning |-> <<"UT certified">>, availabilityStatus |-> "Excellent"]
AIMember2 == [name |-> "Ray", role |-> "Boss", confidenceScore |-> 150]
AIMember3 == [name |-> "Zed", role |-> "Specialist", confidenceScore |-> 60,
              reasoning |-> <<"Nearby">>]
AIMembers == {AIMember1, AIMember2, AIMember3}
AITeams == UNION {[1..n -> AIMembers] : n \in 0..MaxAIMembers}

FailedReplies == {[kind |-> k] : k \in {"network", "status", "body", "nontext", "badjson"}}
JsonReply(j) == [kind |-> "json", json |-> j]

\* Replies to the ranking request.
RankReplies ==
    FailedReplies
    \cup {JsonReply(NoFields), JsonReply([recommendedTeam |-> [size |-> 1]])}
    \cup {JsonReply([recommendedTeam |-> [members |-> m]]) : m \in AITeams}
    \cup {JsonReply([recommendedTeam |-> [members |-> <<AIMember1>>,
                                          teamDynamics |-> "Individual assignment"],
                     alternativeTeams |-> <<[members |-> <<AIMember2>>]>>]),
          JsonReply([recommendedTeam |-> [members |-> <<AIMember1>>],
                     alternativeTeams |-> <<[size |-> 1, teamReasoning |-> "Backup"]>>])}

\* Replies to the job analysis request.
AnalyzeReplies ==
    {[kind |-> "network"],
     JsonReply(NoFields),
     JsonReply([requiredSkills |-> <<"UT Level II">>, complexity |-> "complex",
                estimatedDuration |-> "Full day", recommendations |-> <<"Bring couplant">>])}

(***************************************************************************)
(* State of one ClaudeMatchingService and of the generateMatchAnalysis     *)
(* call it is serving.                                                     *)
(***************************************************************************)
(***************************************************************************)
(* State.                                                                  *)
(***************************************************************************)
VARIABLES
    \* ClaudeMatchingService and the generateMatchAnalysis call it is serving
    isConfigured,          \* ClaudeMatchingService.isConfigured
    pc,                    \* "idle", "awaiting" (at Promise.all), "returned"
    jobDetails,            \* argument of the call
    availableTechnicians,  \* argument of the call
    fallbackUsed,          \* the local constant of generateMatchAnalysis
    jobAnalysisP,          \* promise of analyzeJobRequirements
    teamRankingP,          \* promise of rankTechnicians
    requests,              \* requests this call sent to the reasoning service
    rankReply,             \* the reply rankTechnicians received, if any
    analysis,              \* the MatchAnalysis returned
    raised,                \* the call ended by throwing
    \* one checkTechnicianAvailability call
    periods,               \* argument availability
    checkDate,             \* argument jobDate
    checkPc,               \* "called", "returned"
    isAvailable,           \* the value returned
    \* AirtableService and the findAvailableTechnicians call it is serving
    tableEnv,              \* AIRTABLE_TECHNICIANS_TABLE / AIRTABLE_AVAILABILITY_TABLE
    rateLimiter,           \* AirtableService.rateLimiter
    now,                   \* Date.now()
    query,                 \* getActiveTechnicians / getTechnicianAvailability in flight
    findPc,                \* "idle", "awaiting" (at Promise.all), "done"
    findCall,              \* arguments jobDate, jobType of the call
    findResult,            \* what findAvailableTechnicians returned
    throttled,             \* 429 answers the directory server has given
    \* one calculateMatchScore call
    scoredTechnician,      \* argument technician (TechnicianFields)
    scoredJob,             \* argument jobType, optional
    scorePc,               \* "called", "returned"
    scored,                \* the value returned
    \* one member of an AI reply going through processMembers
    knownTechnicians,      \* techniciansData
    returnedMember,        \* the member object of the reply
    reconcilePc,           \* "called", "returned"
    teamMember,            \* the TeamMember built
    \* one fallbackJobAnalysis call
    analyzedJob,           \* argument jobDetails
    analyzePc,             \* "called", "returned"
    analyzed,              \* the value returned
    \* one fallbackRanking call
    rankingJob,            \* argument jobDetails
    rankingCandidates,     \* argument availableTechnicians
    rankingPc,             \* "called", "returned"
    ranking,               \* the value returned
    \* the Logger
    logs,                  \* Logger.logs
    appended,              \* entries appended since construction
    logCalls,              \* calls of info, warn, error and debug followed so far
    gotLimit,              \* argument of the last getLogs call
    gotLogs                \* what the last getLogs call returned

serviceVars == <<isConfigured, pc, jobDetails, availableTechnicians, fallbackUsed,
                 jobAnalysisP, teamRankingP, requests, rankReply, analysis, raised>>
checkVars == <<periods, checkDate, checkPc, isAvailable>>
directoryVars == <<tableEnv, rateLimiter, now, query, findPc, findCall, findResult,
                   throttled>>
scorerVars == <<scoredTechnician, scoredJob, scorePc, scored>>
reconcileVars == <<knownTechnicians, returnedMember, reconcilePc, teamMember>>
analyzeVars == <<analyzedJob, analyzePc, analyzed>>
rankingVars == <<rankingJob, rankingCandidates, rankingPc, ranking>>
loggerVars == <<logs, appended, logCalls, gotLimit, gotLogs>>
vars == <<serviceVars, checkVars, directoryVars, scorerVars, reconcileVars,
         analyzeVars, rankingVars, loggerVars>>

Pending == [state |-> "pending"]
Fulfilled(v) == [state |-> "fulfilled", value |-> v]
Rejected == [state |-> "rejected"]
NoReply == [kind |-> "none"]

\* What an async function that ran to its return or throw leaves as its promise
settled(result) == IF result.threw THEN Rejected ELSE Fulfilled(result.value)

\* new Date().toISOString()
analysisTimestamp == "ISO-8601"

\* The body of the try block of generateMatchAnalysis after Promise.all
\* fulfilled with [jobAnalysis, teamRanking].
buildAnalysis(jobAnalysis, teamRanking, fallback) ==
    IF Len(teamRanking.recommendedTeam.members) = 0
    THEN Thrown("No technicians available for analysis")
    ELSE LET recommendedTeam == teamRanking.recommendedTeam
             alternativeTeams == teamRanking.alternativeTeams
             flat(member) == [technician |-> member.technician,
                              confidenceScore |-> member.confidenceScore,
                              reasoning |-> member.reasoning,
                              availabilityStatus |-> member.availabilityStatus]
             RECURSIVE flatMap(_)
             flatMap(k) == IF k > Len(alternativeTeams) THEN <<>>
                           ELSE [i \in 1..Len(alternativeTeams[k].members) |->
                                    flat(alternativeTeams[k].members[i])]
                                \o flatMap(k + 1)
         IN Returned([teamComposition |-> recommendedTeam,
                      topRecommendation |-> flat(recommendedTeam.members[1]),
                      alternatives |-> flatMap(1),
                      alternativeTeams |-> alternativeTeams,
                      jobAnalysis |-> jobAnalysis,
                      analysisTimestamp |-> analysisTimestamp,
                      fallbackUsed |-> fallback])

\* The value the catch block of generateMatchAnalysis returns.
basicFallbackAnalysis ==
    [teamComposition |-> [size |-> 0, members |-> <<>>],
     topRecommendation |-> [technician |-> [id |-> "unknown",
                                            name |-> "No match available",
                                            certifications |-> <<>>,
                                            status |-> "Active"],
                            confidenceScore |-> 0,
                            reasoning |-> <<"Analysis failed - please check job requirements">>,
                            availabilityStatus |-> "Unknown"],
     alternatives |-> <<>>,
     jobAnalysis |-> [complexity |-> "moderate",
                      requiredSkills |-> <<>>,
                      estimatedDuration |-> "Unknown",
                      recommendations |-> <<"Manual review required">>],
     analysisTimestamp |-> analysisTimestamp,
     fallbackUsed |-> TRUE]

\* Mutant of matchCatch: the catch block rethrows.
matchCatchRethrows(attempt) == attempt

\* try { ... } catch (error) { return basic fallback analysis }
matchCatch(attempt) ==
    IF attempt.threw THEN Returned(basicFallbackAnalysis) ELSE attempt

\* generateMatchAnalysis once Promise.all has settled.
matchAnalysisOf(jobP, rankP, fallback) ==
    matchCatch(IF rankP.state = "rejected" \/ jobP.state = "rejected"
               THEN Thrown("rejected")
               ELSE buildAnalysis(jobP.value, rankP.value, fallback))

\* Mutant of analyzeStart: the isConfigured guard is missing.
analyzeStartUnguarded(configured, job) == Pending

\* analyzeJobRequirements up to its first await
analyzeStart(configured, job) ==
    IF ~configured THEN Fulfilled(fallbackJobAnalysis(job)) ELSE Pending

\* Mutant of rankStart: the empty candidate list is sent to the reasoning service.
rankStartNoEmptyCheck(configured, job, candidates) ==
    IF ~configured THEN settled(fallbackRanking(job, candidates)) ELSE Pending

\* rankTechnicians up to its first await
rankStart(configured, job, candidates) ==
    IF ~configured \/ Len(candidates) = 0
    THEN settled(fallbackRanking(job, candidates))
    ELSE Pending

NoAnalysis == NoFields

InitService ==
    /\ isConfigured \in BOOLEAN
    /\ pc = "idle"
    /\ jobDetails = NoJob
    /\ availableTechnicians = <<>>
    /\ fallbackUsed = FALSE
    /\ jobAnalysisP = Pending
    /\ teamRankingP = Pending
    /\ requests = [analyze |-> 0, rank |-> 0]
    /\ rankReply = NoReply
    /\ analysis = NoAnalysis
    /\ raised = FALSE

\* generateMatchAnalysis(job, candidates) is called, the candidates being what
\* findAvailableTechnicians returned for the job; it runs to Promise.all.
Call(job, technicians, availabilityRecords, jobDate) ==
    /\ pc = "idle"
    /\ LET candidates == availableMatches(technicians, availabilityRecords,
                                          jobDate, job.jobType)
       IN /\ jobDetails' = job
          /\ availableTechnicians' = candidates
          /\ fallbackUsed' = ~isConfigured
          /\ jobAnalysisP' = analyzeStart(isConfigured, job)
          /\ teamRankingP' = rankStart(isConfigured, job, candidates)
          /\ requests' = [analyze |-> IF analyzeStart(isConfigured, job) = Pending
                                      THEN 1 ELSE 0,
                          rank |-> IF rankStart(isConfigured, job, candidates) = Pending
                                   THEN 1 ELSE 0]
    /\ pc' = "awaiting"
    /\ UNCHANGED <<isConfigured, rankReply, analysis, raised>>
    /\ UNCHANGED <<checkVars, directoryVars, scorerVars, reconcileVars,
                   analyzeVars, rankingVars, loggerVars>>

\* The reasoning service answers the job analysis request.
AnalyzeResponse(reply) ==
    /\ pc = "awaiting"
    /\ jobAnalysisP = Pending
    /\ jobAnalysisP' = Fulfilled(analyzeOnReply(jobDetails, reply))
    /\ UNCHANGED <<isConfigured, pc, jobDetails, availableTechnicians, fallbackUsed,
                   teamRankingP, requests, rankReply, analysis, raised>>
    /\ UNCHANGED <<checkVars, directoryVars, scorerVars, reconcileVars,
                   analyzeVars, rankingVars, loggerVars>>

\* The reasoning service answers the ranking request.
RankResponse(reply) ==
    /\ pc = "awaiting"
    /\ teamRankingP = Pending
    /\ teamRankingP' = settled(rankOnReply(jobDetails, availableTechnicians, reply))
    /\ rankReply' = reply
    /\ UNCHANGED <<isConfigured, pc, jobDetails, availableTechnicians, fallbackUsed,
                   jobAnalysisP, requests, analysis, raised>>
    /\ UNCHANGED <<checkVars, directoryVars, scorerVars, reconcileVars,
                   analyzeVars, rankingVars, loggerVars>>

\* Promise.all settles and generateMatchAnalysis runs to its end.
Return ==
    /\ pc = "awaiting"
    /\ \/ teamRankingP.state = "rejected"
       \/ (teamRankingP.state = "fulfilled" /\ jobAnalysisP.state = "fulfilled")
    /\ LET r == matchAnalysisOf(jobAnalysisP, teamRankingP, fallbackUsed)
       IN /\ raised' = r.threw
          /\ analysis' = IF r.threw THEN NoAnalysis ELSE r.value
    /\ pc' = "returned"
    /\ UNCHANGED <<isConfigured, jobDetails, availableTechnicians, fallbackUsed,
                   jobAnalysisP, teamRankingP, requests, rankReply>>
    /\ UNCHANGED <<checkVars, directoryVars, scorerVars, reconcileVars,
                   analyzeVars, rankingVars, loggerVars>>

\* The caller takes the returned MatchAnalysis (or the exception); the locals
\* of the call are gone and the service is ready for the next call.
Deliver ==
    /\ pc = "returned"
    /\ pc' = "idle"
    /\ jobDetails' = NoJob
    /\ availableTechnicians' = <<>>
    /\ fallbackUsed' = FALSE
    /\ jobAnalysisP' = Pending
    /\ teamRankingP' = Pending
    /\ requests' = [analyze |-> 0, rank |-> 0]
    /\ rankReply' = NoReply
    /\ analysis' = NoAnalysis
    /\ raised' = FALSE
    /\ UNCHANGED isConfigured
    /\ UNCHANGED <<checkVars, directoryVars, scorerVars, reconcileVars,
                   analyzeVars, rankingVars, loggerVars>>

Next ==
    \/ \E job \in Jobs, technicians \in TechnicianLists,
          availabilityRecords \in AvailabilityLists, jobDate \in JobDates :
          Call(job, technicians, availabilityRecords, jobDate)
    \/ \E reply \in AnalyzeReplies : AnalyzeResponse(reply)
    \/ \E reply \in RankReplies : RankResponse(reply)
    \/ Return
    \/ Deliver

\* No checkTechnicianAvailability call is being followed.
NoCheck ==
    /\ periods = <<>>
    /\ checkDate = 1
    /\ checkPc = "returned"
    /\ isAvailable = TRUE

\* The directory client is constructed and no query is made.
NoDirectory ==
    /\ tableEnv = [q \in {"technicians", "availability"} |-> ""]
    /\ rateLimiter = [requests |-> 0, resetTime |-> 60000, maxRequests |-> 300]
    /\ now = 0
    /\ query = [q \in {"technicians", "availability"} |->
                  [pc |-> "idle", table |-> 1, wake |-> 0, served |-> 0,
                   promise |-> Pending]]
    /\ findPc = "idle"
    /\ findCall = [jobDate |-> 2]
    /\ findResult = Returned(<<>>)
    /\ throttled = 0

\* No calculateMatchScore call is being followed.
NoScore ==
    /\ scoredTechnician = [Name |-> "", Status |-> "Active"]
    /\ scoredJob = [k \in {} |-> ""]
    /\ scorePc = "returned"
    /\ scored = 50

\* No member is being reconciled.
NoReconcile ==
    /\ knownTechnicians = <<>>
    /\ returnedMember = [name |-> ""]
    /\ reconcilePc = "returned"
    /\ teamMember = [role |-> "Support"]

\* No fallbackJobAnalysis call is being followed.
NoAnalyze ==
    /\ analyzedJob = [jobType |-> "", bodyPlain |-> ""]
    /\ analyzePc = "returned"
    /\ analyzed = [complexity |-> "simple"]

\* No fallbackRanking call is being followed.
NoRanking ==
    /\ rankingJob = [jobType |-> "", bodyPlain |-> ""]
    /\ rankingCandidates = <<>>
    /\ rankingPc = "returned"
    /\ ranking = [threw |-> FALSE]

\* The Logger is constructed and not used.
NoLogger ==
    /\ logs = <<>>
    /\ appended = 0
    /\ logCalls = 0
    /\ gotLimit = 0
    /\ gotLogs = <<>>

Init ==
    /\ InitService /\ NoCheck /\ NoDirectory /\ NoScore /\ NoReconcile
    /\ NoAnalyze /\ NoRanking /\ NoLogger

Spec == Init /\ [][Next]_vars

(***************************************************************************)
(* checkTechnicianAvailability as a function of its arguments:             *)
(* specification SpecAvailability.                                         *)
(***************************************************************************)
Days == {1, 2, 3}
PeriodTypes == {"Available", "Unavailable", "Booked"}
\* AvailabilityFields records of one technician; End Date is optional.
Periods ==
    {[Technician |-> <<"rec1">>, PeriodType |-> t, StartDate |-> a, EndDate |-> b] :
        t \in PeriodTypes, a \in Days, b \in Days}
    \cup {[Technician |-> <<"rec1">>, PeriodType |-> t, StartDate |-> a] :
        t \in PeriodTypes, a \in Days}
PeriodLists == UNION {[1..n -> Periods] : n \in 0..MaxPeriods}

\* The service is constructed and no matching call is made.
NoService ==
    /\ isConfigured = FALSE
    /\ pc = "idle"
    /\ jobDetails = NoJob
    /\ availableTechnicians = <<>>
    /\ fallbackUsed = FALSE
    /\ jobAnalysisP = Pending
    /\ teamRankingP = Pending
    /\ requests = [analyze |-> 0, rank |-> 0]
    /\ rankReply = NoReply
    /\ analysis = NoAnalysis
    /\ raised = FALSE

InitAvailability ==
    /\ periods \in PeriodLists
    /\ checkDate \in Days
    /\ checkPc = "called"
    /\ isAvailable = FALSE

\* checkTechnicianAvailability(periods, checkDate) runs and returns.
CheckAvailability ==
    /\ checkPc = "called"
    /\ isAvailable' = checkTechnicianAvailability(periods, checkDate)
    /\ checkPc' = "returned"
    /\ UNCHANGED <<periods, checkDate>>
    /\ UNCHANGED <<serviceVars, directoryVars, scorerVars, reconcileVars,
                   analyzeVars, rankingVars, loggerVars>>

NextAvailability == CheckAvailability

InitCheck ==
    /\ NoService /\ NoDirectory /\ NoScore /\ NoReconcile /\ InitAvailability
    /\ NoAnalyze /\ NoRanking /\ NoLogger

SpecAvailability == InitCheck /\ [][NextAvailability]_vars

(***************************************************************************)
(* AirtableService: the rate-limited directory client.                     *)
(***************************************************************************)
windowMs == 60000
cooldownMs == 30000
\* parseInt(process.env.AIRTABLE_RATE_LIMIT_RPM || "300")
RateLimitValues == {2, 300}

Queries == {"technicians", "availability"}

defaultTableNames(q) ==
    IF q = "technicians"
    THEN <<"Scheduler", "Technicians", "Staff", "Team Members">>
    ELSE <<"Availability Periods", "Availability", "Schedule", "Calendar">>

\* Mutant of possibleTableNames: the configured table name is pushed, not
\* unshifted.
possibleTableNamesEnvLast(q) ==
    IF tableEnv[q] # "" THEN defaultTableNames(q) \o <<tableEnv[q]>>
    ELSE defaultTableNames(q)

\* possibleTableNames after the unshift of a configured table name
possibleTableNames(q) ==
    IF tableEnv[q] # "" THEN <<tableEnv[q]>> \o defaultTableNames(q)
    ELSE defaultTableNames(q)

\* Mutant of enforceRateLimit: the counter is reset with the window and never
\* waited for.
enforceRateLimitNoWait(limiter, time) ==
    [rateLimiter |-> IF time > limiter.resetTime
                     THEN [limiter EXCEPT !.requests = 0, !.resetTime = time + windowMs]
                     ELSE limiter,
     waits |-> FALSE, until |-> time]

\* enforceRateLimit up to its await: the limiter it leaves, and whether and
\* until when it sleeps.
enforceRateLimit(limiter, time) ==
    LET reset == IF time > limiter.resetTime
                 THEN [limiter EXCEPT !.requests = 0, !.resetTime = time + windowMs]
                 ELSE limiter
    IN  IF reset.requests >= reset.maxRequests
        THEN [rateLimiter |-> reset, waits |-> TRUE, until |-> reset.resetTime]
        ELSE [rateLimiter |-> reset, waits |-> FALSE, until |-> time]

\* makeRequest for query q from its entry to its first suspension: asleep in
\* enforceRateLimit, or with the fetch sent.
makeRequest(queries, q, limiter, time) ==
    LET e == enforceRateLimit(limiter, time) IN
    [rateLimiter |-> e.rateLimiter,
     query |-> [queries EXCEPT ![q].pc = IF e.waits THEN "limited" ELSE "fetching",
                               ![q].wake = IF e.waits THEN e.until ELSE 0]]

NoQuery == [pc |-> "idle", table |-> 1, wake |-> 0, served |-> 0, promise |-> Pending]

\* Query q returned: its locals are gone, its promise is settled.
settle(queries, q, served, promise) ==
    [queries EXCEPT ![q] = [pc |-> "settled", table |-> 1, wake |-> 0,
                            served |-> served, promise |-> promise]]

\* Mutant of noAccessibleTable: the query throws once every table name failed.
noAccessibleTableThrows == Rejected

\* No table name worked: the query returns an empty array.
noAccessibleTable == Fulfilled(<<>>)

\* catch (tableError) { continue }: the next table name is requested, or the
\* loop ends.
nextTable(queries, q, limiter, time) ==
    IF queries[q].table + 1 > Len(possibleTableNames(q))
    THEN [rateLimiter |-> limiter,
          query |-> settle(queries, q, 0, noAccessibleTable)]
    ELSE makeRequest([queries EXCEPT ![q].table = @ + 1], q, limiter, time)

\* Mutant of tooManyRequests: a 429 is treated as any other failed status.
tooManyRequestsNextTable(queries, q, limiter, time) ==
    nextTable(queries, q, limiter, time)

\* Mutant of tooManyRequests: the promise of the cooldown is never resolved.
tooManyRequestsNeverResumes(queries, q, limiter, time) ==
    [rateLimiter |-> limiter, query |-> [queries EXCEPT ![q].pc = "hung"]]

\* response.status === 429: the query sleeps for the cooldown, its table name
\* and parameters kept for the call that follows.
tooManyRequests(queries, q, limiter, time) ==
    [rateLimiter |-> limiter,
     query |-> [queries EXCEPT ![q].pc = "cooldown", ![q].wake = time + cooldownMs]]

\* What the directory server may answer to a fetch of query q.
ResponseRecords(q) ==
    IF q = "technicians" THEN {<<>>, <<Tech3, Tech1>>, <<Tech1, Tech2>>}
    ELSE AvailabilityLists
Responses(q) ==
    {[kind |-> k] : k \in {"network", "status", "limited", "malformed"}}
    \cup {[kind |-> "ok", records |-> r] : r \in ResponseRecords(q)}

\* The table names configured in the environment: none, or one for each query.
TableEnvs == {[q \in Queries |-> ""],
              [q \in Queries |-> IF q = "technicians" THEN "Crew" ELSE "Slots"]}

FindCalls == {[jobDate |-> 2], [jobDate |-> 2, jobType |-> "UT"]}

\* new AirtableService()
InitDirectory ==
    /\ tableEnv \in TableEnvs
    /\ \E m \in RateLimitValues :
          rateLimiter = [requests |-> 0, resetTime |-> windowMs, maxRequests |-> m]
    /\ now = 0
    /\ query = [q \in Queries |-> NoQuery]
    /\ findPc = "idle"
    /\ findCall \in FindCalls
    /\ findResult = Returned(<<>>)
    /\ throttled = 0

\* findAvailableTechnicians(jobDate, jobType) up to its await: both queries
\* are started, getActiveTechnicians first.
FindAvailableTechnicians ==
    /\ findPc = "idle"
    /\ LET first == makeRequest(query, "technicians", rateLimiter, now)
           second == makeRequest(first.query, "availability", first.rateLimiter, now)
       IN  /\ rateLimiter' = second.rateLimiter
           /\ query' = second.query
    /\ findPc' = "awaiting"
    /\ UNCHANGED <<tableEnv, now, findCall, findResult, throttled>>
    /\ UNCHANGED <<serviceVars, checkVars, scorerVars, reconcileVars,
                   analyzeVars, rankingVars, loggerVars>>

\* The timer of enforceRateLimit fires: the counter is cleared, a new window
\* opens and the fetch is sent.
WakeLimited(q) ==
    /\ query[q].pc = "limited"
    /\ now >= query[q].wake
    /\ rateLimiter' = [rateLimiter EXCEPT !.requests = 0, !.resetTime = now + windowMs]
    /\ query' = [query EXCEPT ![q].pc = "fetching", ![q].wake = 0]
    /\ UNCHANGED <<tableEnv, now, findPc, findCall, findResult, throttled>>
    /\ UNCHANGED <<serviceVars, checkVars, scorerVars, reconcileVars,
                   analyzeVars, rankingVars, loggerVars>>

\* The fetch of query q settles with response r and makeRequest runs on to its
\* next suspension or to the end of the query.
Respond(q, r) ==
    /\ query[q].pc = "fetching"
    /\ r.kind = "limited" => throttled < Max429
    /\ throttled' = IF r.kind = "limited" THEN throttled + 1 ELSE throttled
    /\ LET counted == [rateLimiter EXCEPT !.requests = @ + 1]
           step ==
             CASE r.kind = "network" ->
                    nextTable(query, q, rateLimiter, now)
               [] r.kind = "limited" ->
                    tooManyRequests(query, q, counted, now)
               [] r.kind \in {"status", "malformed"} ->
                    nextTable(query, q, counted, now)
               [] r.kind = "ok" ->
                    [rateLimiter |-> counted,
                     query |-> settle(query, q, 1, Fulfilled(r.records))]
       IN  /\ rateLimiter' = step.rateLimiter
           /\ query' = step.query
    /\ UNCHANGED <<tableEnv, now, findPc, findCall, findResult>>
    /\ UNCHANGED <<serviceVars, checkVars, scorerVars, reconcileVars,
                   analyzeVars, rankingVars, loggerVars>>

\* The 30 s timer after a 429 fires: makeRequest is called again.
WakeCooldown(q) ==
    /\ query[q].pc = "cooldown"
    /\ now >= query[q].wake
    /\ LET step == makeRequest(query, q, rateLimiter, now)
       IN  /\ rateLimiter' = step.rateLimiter
           /\ query' = step.query
    /\ UNCHANGED <<tableEnv, now, findPc, findCall, findResult, throttled>>
    /\ UNCHANGED <<serviceVars, checkVars, scorerVars, reconcileVars,
                   analyzeVars, rankingVars, loggerVars>>

\* Time passes.
Tick ==
    /\ now < MaxTicks * cooldownMs
    /\ now' = now + cooldownMs
    /\ UNCHANGED <<tableEnv, rateLimiter, query, findPc, findCall, findResult, throttled>>
    /\ UNCHANGED <<serviceVars, checkVars, scorerVars, reconcileVars,
                   analyzeVars, rankingVars, loggerVars>>

\* Promise.all settled: findAvailableTechnicians filters, scores, sorts and
\* returns; its catch returns [].
FindReturns ==
    /\ findPc = "awaiting"
    /\ \A q \in Queries : query[q].pc = "settled"
    /\ findResult' =
         IF \E q \in Queries : query[q].promise.state = "rejected"
         THEN Returned(<<>>)
         ELSE Returned(availableMatches(query["technicians"].promise.value,
                                        query["availability"].promise.value,
                                        findCall.jobDate,
                                        IF "jobType" \in DOMAIN findCall
                                        THEN findCall.jobType ELSE ""))
    /\ findPc' = "done"
    /\ UNCHANGED <<tableEnv, rateLimiter, now, query, findCall, throttled>>
    /\ UNCHANGED <<serviceVars, checkVars, scorerVars, reconcileVars,
                   analyzeVars, rankingVars, loggerVars>>

NextDirectory ==
    \/ FindAvailableTechnicians
    \/ \E q \in Queries : WakeLimited(q)
    \/ \E q \in Queries : \E r \in Responses(q) : Respond(q, r)
    \/ \E q \in Queries : WakeCooldown(q)
    \/ Tick
    \/ FindReturns

InitFind ==
    /\ NoService /\ NoCheck /\ NoScore /\ NoReconcile /\ InitDirectory
    /\ NoAnalyze /\ NoRanking /\ NoLogger

SpecDirectory == InitFind /\ [][NextDirectory]_vars

(***************************************************************************)
(* The directory client with its timers and the server's answers bound to  *)
(* come: specification SpecDirectoryLive. A fetch settles (with an answer   *)
(* or a network error), a timer fires once its time has come, and time      *)
(* passes as long as a timer is pending.                                    *)
(***************************************************************************)
\* Time passes beyond the horizon of Tick while a query sleeps on a timer.
Elapse ==
    /\ now >= MaxTicks * cooldownMs
    /\ \E q \in Queries : query[q].pc \in {"limited", "cooldown"} /\ now < query[q].wake
    /\ now' = now + cooldownMs
    /\ UNCHANGED <<tableEnv, rateLimiter, query, findPc, findCall, findResult, throttled>>
    /\ UNCHANGED <<serviceVars, checkVars, scorerVars, reconcileVars,
                   analyzeVars, rankingVars, loggerVars>>

NextDirectoryLive == NextDirectory \/ Elapse

\* new AirtableService() with no table name configured, and one call.
InitLive ==
    /\ InitFind
    /\ tableEnv = [q \in Queries |-> ""]
    /\ findCall = [jobDate |-> 2]

SpecDirectoryLive ==
    /\ InitLive
    /\ [][NextDirectoryLive]_vars
    /\ \A q \in Queries :
          /\ WF_vars(WakeLimited(q))
          /\ WF_vars(WakeCooldown(q))
          /\ WF_vars(\E r \in Responses(q) : Respond(q, r))
    /\ WF_vars(Tick)
    /\ WF_vars(Elapse)
    /\ WF_vars(FindReturns)

(***************************************************************************)
(* getActiveTechnicians called on its own, one call after the other:       *)
(* specification SpecSequential.                                           *)
(***************************************************************************)
\* getActiveTechnicians() up to its first suspension; no other query runs.
GetActiveTechnicians ==
    /\ findPc = "idle"
    /\ query["availability"].pc = "idle"
    /\ query["technicians"].pc \in {"idle", "settled"}
    /\ LET step == makeRequest([query EXCEPT !["technicians"] = NoQuery],
                               "technicians", rateLimiter, now)
       IN  /\ rateLimiter' = step.rateLimiter
           /\ query' = step.query
    /\ UNCHANGED <<tableEnv, now, findPc, findCall, findResult, throttled>>
    /\ UNCHANGED <<serviceVars, checkVars, scorerVars, reconcileVars,
                   analyzeVars, rankingVars, loggerVars>>

NextSequential ==
    \/ GetActiveTechnicians
    \/ WakeLimited("technicians")
    \/ \E r \in Responses("technicians") : Respond("technicians", r)
    \/ WakeCooldown("technicians")
    \/ Tick

SpecSequential == InitFind /\ [][NextSequential]_vars

(***************************************************************************)
(* fallbackJobAnalysis as a function of its argument: specification        *)
(* SpecJobAnalysis.                                                        *)
(***************************************************************************)
\* jobType and bodyPlain of the analysed jobs; either may be missing.
AnalyzedJobTypes == {"", "UT", "RT", "MT", "UT/RT", "Visual", "Routine MT"}
AnalyzedDescriptions ==
    {"", "Ultrasonic thickness survey", "rope access", "Confined space entry",
     "magnetic particle and radiograph", "weld inspection in a confined space by rope",
     "Ultrasonic and magnetic testing, rope access"}
AnalyzedJobs ==
    {(IF t = "absent" THEN NoFields ELSE [jobType |-> t])
     @@ (IF d = "absent" THEN NoFields ELSE [bodyPlain |-> d]) :
        t \in AnalyzedJobTypes \cup {"absent"}, d \in AnalyzedDescriptions \cup {"absent"}}

InitJobAnalysis ==
    /\ analyzedJob \in AnalyzedJobs
    /\ analyzePc = "called"
    /\ analyzed = [complexity |-> "simple"]

\* fallbackJobAnalysis(analyzedJob) runs and returns.
AnalyzeJob ==
    /\ analyzePc = "called"
    /\ analyzed' = fallbackJobAnalysis(analyzedJob)
    /\ analyzePc' = "returned"
    /\ UNCHANGED analyzedJob
    /\ UNCHANGED <<serviceVars, checkVars, directoryVars, scorerVars, reconcileVars,
                   rankingVars, loggerVars>>

NextJobAnalysis == AnalyzeJob

InitAnalyze ==
    /\ NoService /\ NoCheck /\ NoDirectory /\ NoScore /\ NoReconcile
    /\ NoRanking /\ NoLogger /\ InitJobAnalysis

SpecJobAnalysis == InitAnalyze /\ [][NextJobAnalysis]_vars

(***************************************************************************)
(* fallbackRanking as a function of its arguments, the candidates being    *)
(* what findAvailableTechnicians returns: specification SpecRanking.       *)
(***************************************************************************)
TechA == [id |-> "recA", Name |-> "Ann",
          Certifications |-> <<"UT Level II", "RT Level II">>, Status |-> "Active"]
TechB == [id |-> "recB", Name |-> "Ben",
          Certifications |-> <<"UT Level II">>, Status |-> "Active"]
TechC == [id |-> "recC", Name |-> "Cy",
          Certifications |-> <<"UT Level I">>, Status |-> "Active"]
TechD == [id |-> "recD", Name |-> "Dee", Certifications |-> <<>>, Status |-> "Active"]
TechE == [id |-> "recE", Name |-> "Eve", Certifications |-> <<"MT">>, Status |-> "Active"]
RankingTechnicians == {TechA, TechB, TechC, TechD, TechE}

\* The technician lists of the directory: distinct records, any order.
RankingTechnicianLists ==
    {l \in UNION {[1..n -> RankingTechnicians] : n \in 0..MaxRanked} :
        \A i, j \in 1..Len(l) : i # j => l[i] # l[j]}

\* Availability periods of the directory: Ann, Ben and Dee are available.
RankingAvailability ==
    <<[Technician |-> <<"recA">>, PeriodType |-> "Available", StartDate |-> 1, EndDate |-> 3],
      [Technician |-> <<"recB">>, PeriodType |-> "Available", StartDate |-> 2],
      [Technician |-> <<"recD">>, PeriodType |-> "Available", StartDate |-> 1, EndDate |-> 2]>>

RankingJobTexts == {[jobType |-> t, bodyPlain |-> ""] : t \in {"", "UT", "UT/RT"}}
RankingJobs ==
    RankingJobTexts
    \cup {j @@ [techsNeeded |-> n] : j \in RankingJobTexts, n \in TechsNeededValues}

InitFallbackRanking ==
    /\ rankingJob \in RankingJobs
    /\ \E technicians \in RankingTechnicianLists :
          rankingCandidates = availableMatches(technicians, RankingAvailability, 2,
                                               rankingJob.jobType)
    /\ rankingPc = "called"
    /\ ranking = [threw |-> FALSE]

\* fallbackRanking(rankingJob, rankingCandidates) runs and returns or throws.
RankFallback ==
    /\ rankingPc = "called"
    /\ ranking' = fallbackRanking(rankingJob, rankingCandidates)
    /\ rankingPc' = "returned"
    /\ UNCHANGED <<rankingJob, rankingCandidates>>
    /\ UNCHANGED <<serviceVars, checkVars, directoryVars, scorerVars, reconcileVars,
                   analyzeVars, loggerVars>>

NextRanking == RankFallback

InitRank ==
    /\ NoService /\ NoCheck /\ NoDirectory /\ NoScore /\ NoReconcile
    /\ NoAnalyze /\ NoLogger /\ InitFallbackRanking

SpecRanking == InitRank /\ [][NextRanking]_vars

(***************************************************************************)
(* The Logger: specification SpecLogger. An entry carries, for its          *)
(* timestamp, the number of the append that made it.                        *)
(***************************************************************************)
maxLogs == 1000
\* getLogs(limit = 100)
defaultLimit == 100

\* Array.prototype.slice(start) with one argument
sliceFrom(seq, start) ==
    LET from == IF start < 0 THEN Max(Len(seq) + start, 0) ELSE Min(start, Len(seq))
    IN SubSeq(seq, from + 1, Len(seq))

\* Array.prototype.reverse
reverse(seq) == [k \in 1..Len(seq) |-> seq[Len(seq) - k + 1]]

\* Logger.log: push, then keep the last maxLogs entries.
log(buffer, entry) ==
    LET pushed == Append(buffer, entry)
    IN IF Len(pushed) > maxLogs THEN sliceFrom(pushed, 0 - maxLogs) ELSE pushed

\* Logger.getLogs(limit)
getLogs(buffer, limit) == reverse(sliceFrom(buffer, 0 - limit))

\* A Logger that has served n info calls since its construction.
loggedInfo(n) ==
    [k \in 1..Min(n, maxLogs) |->
        [timestamp |-> n - Min(n, maxLogs) + k, level |-> "INFO", message |-> "m"]]

\* The numbers of calls the followed Logger has served before.
LogStarts == {0, maxLogs - 1, maxLogs + 1}
\* Arguments of getLogs; defaultLimit stands for a call without argument.
LogLimits == {0, 1, defaultLimit, maxLogs + 1}

InitLogs ==
    /\ \E n \in LogStarts : logs = loggedInfo(n) /\ appended = n
    /\ logCalls = 0
    /\ gotLimit = 0
    /\ gotLogs = <<>>

\* One call of the private log(level, message, metadata).
Log(level) ==
    /\ logCalls < MaxLogCalls
    /\ logs' = log(logs, [timestamp |-> appended + 1, level |-> level, message |-> "m"])
    /\ appended' = appended + 1
    /\ logCalls' = logCalls + 1
    /\ UNCHANGED <<gotLimit, gotLogs>>
    /\ UNCHANGED <<serviceVars, checkVars, directoryVars, scorerVars, reconcileVars,
                   analyzeVars, rankingVars>>

Info == Log("INFO")
Warn == Log("WARN")
Error == Log("ERROR")
Debug == Log("DEBUG")

GetLogs(limit) ==
    /\ gotLimit' = limit
    /\ gotLogs' = getLogs(logs, limit)
    /\ UNCHANGED <<logs, appended, logCalls>>
    /\ UNCHANGED <<serviceVars, checkVars, directoryVars, scorerVars, reconcileVars,
                   analyzeVars, rankingVars>>

ClearLogs ==
    /\ logs' = <<>>
    /\ UNCHANGED <<appended, logCalls, gotLimit, gotLogs>>
    /\ UNCHANGED <<serviceVars, checkVars, directoryVars, scorerVars, reconcileVars,
                   analyzeVars, rankingVars>>

NextLogger ==
    \/ Info
    \/ Warn
    \/ Error
    \/ Debug
    \/ \E limit \in LogLimits : GetLogs(limit)
    \/ ClearLogs

InitLogger ==
    /\ NoService /\ NoCheck /\ NoDirectory /\ NoScore /\ NoReconcile
    /\ NoAnalyze /\ NoRanking /\ InitLogs

SpecLogger == InitLogger /\ [][NextLogger]_vars

(***************************************************************************)
(* calculateMatchScore as a function of its arguments: specification       *)
(* SpecScorer.                                                             *)
(***************************************************************************)
\* Certification names a technician record may hold.
CertificationNames == <<"UT Level II", "UT-1", "RT Level II", "MT", "VT",
                        "ASNT NDT", "Rope Access", "AWS">>

\* The certification lists: up to MaxCerts of the names, in the order above.
RECURSIVE pick(_, _)
pick(names, chosen) ==
    IF Len(names) = 0 THEN <<>>
    ELSE pick(SubSeq(names, 1, Len(names) - 1), chosen)
         \o (IF Len(names) \in chosen THEN <<names[Len(names)]>> ELSE <<>>)
CertificationLists ==
    {pick(CertificationNames, c) : c \in {x \in SUBSET (1..Len(CertificationNames)) :
                                             Cardinality(x) <= MaxCerts}}

\* TechnicianFields; Certifications is missing from a record whose field is empty.
ScoredTechnicians ==
    {[Name |-> "Jane Doe", Status |-> "Active", Certifications |-> c] :
        c \in CertificationLists}
    \cup {[Name |-> "Jane Doe", Status |-> "Active"]}

\* jobType: absent, empty, or a job type naming one or several disciplines.
ScoredJobs ==
    {[k \in {} |-> ""]}
    \cup {[jobType |-> j] : j \in {"", "UT", "Radiography", "RT/UT", "UT MT PT", "Visual"}}

InitScorer ==
    /\ scoredTechnician \in ScoredTechnicians
    /\ scoredJob \in ScoredJobs
    /\ scorePc = "called"
    /\ scored = 0

\* The jobType argument as calculateMatchScore tests it: undefined is falsy as "" is.
jobTypeOf(call) == IF "jobType" \in DOMAIN call THEN call.jobType ELSE ""

\* calculateMatchScore(scoredTechnician, scoredJob.jobType) runs and returns.
Score ==
    /\ scorePc = "called"
    /\ scored' = calculateMatchScore(scoredTechnician, jobTypeOf(scoredJob))
    /\ scorePc' = "returned"
    /\ UNCHANGED <<scoredTechnician, scoredJob>>
    /\ UNCHANGED <<serviceVars, checkVars, directoryVars, reconcileVars,
                   analyzeVars, rankingVars, loggerVars>>

NextScorer == Score

InitScore ==
    /\ NoService /\ NoCheck /\ NoDirectory /\ NoReconcile /\ InitScorer
    /\ NoAnalyze /\ NoRanking /\ NoLogger

SpecScorer == InitScore /\ [][NextScorer]_vars

(***************************************************************************)
(* processMembers of rankTechnicians, one member of the reply at a time:   *)
(* specification SpecReconcile.                                            *)
(***************************************************************************)
Tech4 == [id |-> "rec4", Name |-> "Ray", Certifications |-> <<"MT">>, Status |-> "Active"]

\* The candidate lists processMembers works with: distinct technicians, any
\* order, at least one (rankTechnicians leaves an empty list to fallbackRanking).
CandidateLists ==
    {l \in UNION {[1..n -> {Tech1, Tech2, Tech3, Tech4}] : n \in 1..MaxCandidates} :
        \A i, j \in 1..Len(l) : i # j => l[i] # l[j]}

\* A member object of the reply: every property may be missing.
MemberNames == {NoFields} \cup {[name |-> n] : n \in {"", "jane doe", "Doe", "Ray", "Zed"}}
MemberIds == {NoFields} \cup {[id |-> i] : i \in {"rec3", "rec9"}}
MemberScores == {NoFields} \cup {[confidenceScore |-> c] : c \in {0 - 5, 0, 85, 150, NaN}}
MemberRoles == {NoFields} \cup {[role |-> r] : r \in {"Lead", "Boss"}}
MemberReasonings == {NoFields} \cup {[reasoning |-> <<"UT certified">>]}
ReturnedMembers ==
    {n @@ i @@ c @@ r @@ e : n \in MemberNames, i \in MemberIds, c \in MemberScores,
                             r \in MemberRoles, e \in MemberReasonings}

\* The job the ranking is made for.
RankedJob == [jobType |-> "UT", bodyPlain |-> ""]

InitReconcile ==
    /\ \E l \in CandidateLists :
          knownTechnicians = techniciansDataOf(
              [k \in 1..Len(l) |-> [technician |-> l[k], availability |-> <<>>,
                                    matchScore |-> 50]])
    /\ returnedMember \in ReturnedMembers
    /\ reconcilePc = "called"
    /\ teamMember = [role |-> "Support"]

\* The callback of members.map in processMembers runs for returnedMember.
ProcessMember ==
    /\ reconcilePc = "called"
    /\ teamMember' = processMember(knownTechnicians, RankedJob, returnedMember)
    /\ reconcilePc' = "returned"
    /\ UNCHANGED <<knownTechnicians, returnedMember>>
    /\ UNCHANGED <<serviceVars, checkVars, directoryVars, scorerVars,
                   analyzeVars, rankingVars, loggerVars>>

NextReconcile == ProcessMember

InitMember ==
    /\ NoService /\ NoCheck /\ NoDirectory /\ NoScore /\ InitReconcile
    /\ NoAnalyze /\ NoRanking /\ NoLogger

SpecReconcile == InitMember /\ [][NextReconcile]_vars

(***************************************************************************)
(* Claims about generateMatchAnalysis (specification Spec).                *)
(***************************************************************************)
MatchAnalysisFields == {"teamComposition", "topRecommendation", "alternatives",
                        "jobAnalysis", "analysisTimestamp", "fallbackUsed"}

\* C1: generateMatchAnalysis never throws: whatever the job, the candidates
\* and the outcomes of analyzeJobRequirements and rankTechnicians, the call
\* returns a MatchAnalysis holding all six required fields.
C1_NeverThrows ==
    pc = "returned" => (~raised /\ MatchAnalysisFields \subseteq DOMAIN analysis)

\* C1 witness: the call returned although rankTechnicians rejected.
C1_Witness ==
    pc = "returned" /\ teamRankingP.state = "rejected" /\ ~raised

\* The ranking request was answered and the answer is an AI failure: network
\* error, non-2xx status, non-JSON body, non-text block, or JSON of the wrong shape.
aiRankingFailed ==
    /\ rankReply # NoReply
    /\ \/ rankReply.kind # "json"
       \/ "recommendedTeam" \notin DOMAIN rankReply.json
       \/ "members" \notin DOMAIN rankReply.json.recommendedTeam
       \/ ("alternativeTeams" \in DOMAIN rankReply.json
           /\ \E k \in 1..Len(rankReply.json.alternativeTeams) :
                 "members" \notin DOMAIN rankReply.json.alternativeTeams[k])

\* C2: when the adapter is configured and the AI ranking call fails, the
\* deterministic team is used and the returned MatchAnalysis has
\* fallbackUsed = true.
C2_FallbackFlaggedOnAIFailure ==
    (pc = "returned" /\ isConfigured /\ aiRankingFailed)
    => /\ ~raised
       /\ analysis.teamComposition
            = fallbackRanking(jobDetails, availableTechnicians).value.recommendedTeam
       /\ analysis.fallbackUsed = TRUE

\* C3: an unconfigured adapter sends nothing to the reasoning service and
\* every MatchAnalysis it returns has fallbackUsed = true; isConfigured never
\* changes after construction.
C3_UnconfiguredAlwaysFallback ==
    /\ [](~isConfigured =>
            /\ requests.analyze = 0 /\ requests.rank = 0
            /\ rankReply = NoReply
            /\ (pc = "returned" => ~raised /\ analysis.fallbackUsed = TRUE))
    /\ [][isConfigured' = isConfigured]_vars

\* C3 witness: an unconfigured service returned a non-empty team.
C3_Witness ==
    /\ ~isConfigured /\ pc = "returned" /\ ~raised
    /\ Len(analysis.teamComposition.members) > 0

\* C4: rankTechnicians never raises, for every candidate list (empty or not),
\* every techsNeeded and every outcome of the AI call.
C4_RankNeverRaises ==
    teamRankingP.state # "rejected"

\* C6: every MatchAnalysis returned has
\* len(teamComposition.members) = min(requested techsNeeded (default 1),
\* number of available candidates), on the AI path and on the deterministic path.
C6_TeamSize ==
    (pc = "returned" /\ ~raised)
    => Len(analysis.teamComposition.members)
         = Min(requiredTeamSizeOf(jobDetails), Len(availableTechnicians))

\* C7: with an empty candidate list generateMatchAnalysis returns the sentinel
\* MatchAnalysis: size 0, no members, topRecommendation "unknown" with
\* confidenceScore 0, no alternatives, complexity moderate, "Manual review
\* required", fallbackUsed = true.
C7_EmptyCandidatesSentinel ==
    (pc = "returned" /\ Len(availableTechnicians) = 0)
    => /\ ~raised
       /\ analysis.teamComposition.size = 0
       /\ analysis.teamComposition.members = <<>>
       /\ analysis.topRecommendation.technician.id = "unknown"
       /\ analysis.topRecommendation.confidenceScore = 0
       /\ analysis.alternatives = <<>>
       /\ analysis.jobAnalysis.complexity = "moderate"
       /\ analysis.jobAnalysis.recommendations = <<"Manual review required">>
       /\ analysis.fallbackUsed = TRUE

\* C7 witness: a configured service returned for an empty candidate list and
\* a job asking for more than one technician.
C7_Witness ==
    /\ pc = "returned" /\ Len(availableTechnicians) = 0
    /\ isConfigured /\ requiredTeamSizeOf(jobDetails) > 1

\* The candidate a team member was built from.
candidateOf(member) ==
    CHOOSE k \in 1..Len(availableTechnicians) :
        availableTechnicians[k].technician.id = member.technician.id

\* C8: on the deterministic path the members are the top teamSize candidates
\* by the Deterministic Scorer's matchScore, each with confidenceScore equal to
\* the score the scorer gives that technician for the job type.
C8_DeterministicTeamFromScorer ==
    (pc = "returned" /\ ~isConfigured /\ ~raised
       /\ Len(analysis.teamComposition.members) > 0)
    => LET members == analysis.teamComposition.members IN
       \A k \in 1..Len(members) :
          /\ candidateOf(members[k]) = k
          /\ members[k].confidenceScore
               = calculateMatchScore(availableTechnicians[k].technician, jobDetails.jobType)

\* C9: when the AI call succeeds with an empty recommended team and at least
\* one candidate is available, the MatchAnalysis holds the team computed from
\* the ranked candidates, not an empty team.
C9_EmptyAITeamFallsBack ==
    (pc = "returned" /\ Len(availableTechnicians) > 0
       /\ rankReply # NoReply /\ ~aiRankingFailed
       /\ rankReply.json.recommendedTeam.members = <<>>)
    => /\ ~raised
       /\ analysis.teamComposition.members # <<>>
       /\ analysis.teamComposition
            = fallbackRanking(jobDetails, availableTechnicians).value.recommendedTeam

(***************************************************************************)
(* Claims about the directory client (specification SpecDirectory).        *)
(***************************************************************************)
\* C5: the directory client never raises to its caller, and
\* getActiveTechnicians, getTechnicianAvailability and
\* findAvailableTechnicians return an empty list whenever no probed table
\* answered successfully, whatever the server answered to each request.
C5_DirectoryNeverRaises ==
    /\ \A q \in Queries :
          /\ query[q].promise.state # "rejected"
          /\ (query[q].pc = "settled" /\ query[q].served = 0)
                => query[q].promise = Fulfilled(<<>>)
    /\ findPc = "done" =>
          /\ ~findResult.threw
          /\ (\A q \in Queries : query[q].served = 0) => findResult.value = <<>>

\* C5 witness: findAvailableTechnicians returned after both queries ran out
\* of table names, a configured name included, the server having answered 429
\* on the way.
C5_Witness ==
    /\ findPc = "done"
    /\ \A q \in Queries : query[q].served = 0 /\ tableEnv[q] # ""
    /\ throttled > 0
    /\ findResult = Returned(<<>>)

(***************************************************************************)
(* Claims about checkTechnicianAvailability (specification                 *)
(* SpecAvailability).                                                      *)
(***************************************************************************)
\* Period k of the list contains the job date: [startDate, endDate], an
\* absent endDate leaving the period open-ended.
contains(k) ==
    /\ periods[k].StartDate <= checkDate
    /\ ("EndDate" \in DOMAIN periods[k] => checkDate <= periods[k].EndDate)

\* C10 as stated: isAvailable is true whenever some period containing jobDate
\* is Available, whatever its position and whatever other periods contain
\* jobDate.
C10_AnyAvailableWins ==
    (checkPc = "returned"
       /\ \E k \in 1..Len(periods) : contains(k) /\ periods[k].PeriodType = "Available")
    => isAvailable = TRUE

\* C10 amended: isAvailable is true whenever some period containing jobDate is
\* Available and no Unavailable or Booked period containing jobDate stands
\* before it in the list, whatever follows it.
C10_FirstMatchingAvailableWins ==
    (checkPc = "returned"
       /\ \E k \in 1..Len(periods) :
             /\ contains(k) /\ periods[k].PeriodType = "Available"
             /\ \A j \in 1..(k - 1) :
                   ~(contains(j) /\ periods[j].PeriodType \in {"Unavailable", "Booked"}))
    => isAvailable = TRUE

\* C10 witness: an Available period containing jobDate standing before a
\* Booked period that also contains it gave true.
C10_Witness ==
    /\ checkPc = "returned" /\ isAvailable = TRUE
    /\ \E j, k \in 1..Len(periods) :
          /\ j < k
          /\ contains(j) /\ periods[j].PeriodType = "Available"
          /\ contains(k) /\ periods[k].PeriodType = "Booked"

\* C11: isAvailable is true whenever no period's [startDate, endDate] interval
\* contains jobDate, for an empty list and for a list whose periods all lie
\* outside the job date.
C11_NoMatchMeansAvailable ==
    (checkPc = "returned" /\ \A k \in 1..Len(periods) : ~contains(k))
    => isAvailable = TRUE

\* The list without its period k.
without(k) == SubSeq(periods, 1, k - 1) \o SubSeq(periods, k + 1, Len(periods))

\* The first period of the list that contains the job date is period k.
firstContaining(k) == contains(k) /\ \A j \in 1..(k - 1) : ~contains(j)

\* C12: periods are evaluated in list order: when the first period containing
\* jobDate is Available the result is true whatever follows it, and a period
\* that does not contain jobDate never changes the result, wherever it stands:
\* the list without it gives the same result.
C12_ListOrderNonMatchingIgnored ==
    checkPc = "returned" =>
       /\ \A k \in 1..Len(periods) :
             (firstContaining(k) /\ periods[k].PeriodType = "Available")
             => isAvailable = TRUE
       /\ \A k \in 1..Len(periods) :
             ~contains(k)
             => checkTechnicianAvailability(without(k), checkDate) = isAvailable

(***************************************************************************)
(* Claims about the Deterministic Scorer (specification SpecScorer).       *)
(***************************************************************************)
\* The certifications of a technician record, none when the field is missing.
certsOf(t) == IF "Certifications" \in DOMAIN t THEN t.Certifications ELSE <<>>

\* C13: 0 <= score <= 100 for every technician, every certification list and
\* every jobType, present or absent.
C13_ScoreBounds ==
    scorePc = "returned" => (scored >= 0 /\ scored <= 100)

\* C13 witness: four certifications, three of them matching a three-discipline
\* job type, whose bonuses add up to more than 100, scored exactly 100.
C13_Witness ==
    /\ scorePc = "returned" /\ scored = 100
    /\ scoredJob = [jobType |-> "UT MT PT"]
    /\ certsOf(scoredTechnician) = <<"UT Level II", "RT Level II", "MT", "ASNT NDT">>

\* The reference formula of the scorer: the disciplines with the job-type
\* words that request them, the certification words of their tiers and the
\* bonus of each tier.
Disciplines ==
    <<[job |-> {"ut", "ultrasonic"}, top |-> {"ut level ii", "ut-2"},
       low |-> {"ut level i", "ut-1", "ut"}, topBonus |-> 35, lowBonus |-> 25],
      [job |-> {"rt", "radiograph"}, top |-> {"rt level ii", "rt-2"},
       low |-> {"rt level i", "rt-1", "rt"}, topBonus |-> 35, lowBonus |-> 25],
      [job |-> {"mt", "magnetic"}, top |-> {"mt"}, low |-> {}, topBonus |-> 30, lowBonus |-> 0],
      [job |-> {"pt", "penetrant"}, top |-> {"pt"}, low |-> {}, topBonus |-> 30, lowBonus |-> 0],
      [job |-> {"vt", "visual"}, top |-> {"vt"}, low |-> {}, topBonus |-> 25, lowBonus |-> 0]>>

\* The job type names discipline d.
requested(jobType, d) == \E w \in d.job : includes(toLowerCase(jobType), w)

\* Some certification of the list holds one of the words.
holds(certs, words) ==
    \E i \in 1..Len(certs) :
       LET lowered == toLowerCase(certs[i]) IN \E w \in words : includes(lowered, w)

\* At most one tier bonus per discipline: the top tier or else the lower one.
tierBonus(certs, jobType, d) ==
    IF ~requested(jobType, d) THEN 0
    ELSE IF holds(certs, d.top) THEN d.topBonus
    ELSE IF holds(certs, d.low) THEN d.lowBonus
    ELSE 0

RECURSIVE disciplineSum(_, _, _)
disciplineSum(certs, jobType, n) ==
    IF n = 0 THEN 0
    ELSE tierBonus(certs, jobType, Disciplines[n]) + disciplineSum(certs, jobType, n - 1)

referenceScore(certs, jobType) ==
    IF jobType = "" THEN 50
    ELSE LET breadth == CASE Len(certs) >= 4 -> 15
                          [] Len(certs) = 3 -> 10
                          [] Len(certs) = 2 -> 5
                          [] OTHER -> 0
             sum == 35 + disciplineSum(certs, jobType, Len(Disciplines))
                       + (IF holds(certs, ndt_keywords) THEN 10 ELSE 0)
                       + breadth
                       + (IF holds(certs, safety_keywords) THEN 12 ELSE 0)
                       + (IF holds(certs, industry_keywords) THEN 8 ELSE 0)
         IN IF sum > 100 THEN 100 ELSE sum

\* C14: the score equals the reference formula: exactly 50 with no jobType;
\* otherwise min(100, 35 + discipline bonus + general-NDT bonus + breadth
\* bonus + safety bonus + industry bonus) with at most one tier bonus per
\* discipline. jobType "UT" scores 70 with ["UT Level II"] and 35 with [].
C14_ScoreIsReferenceFormula ==
    scorePc = "returned" =>
       /\ scored = referenceScore(certsOf(scoredTechnician), jobTypeOf(scoredJob))
       /\ jobTypeOf(scoredJob) = "" => scored = 50
       /\ (scoredJob = [jobType |-> "UT"] /\ certsOf(scoredTechnician) = <<"UT Level II">>)
             => scored = 70
       /\ (scoredJob = [jobType |-> "UT"] /\ certsOf(scoredTechnician) = <<>>)
             => scored = 35

\* C14 witness: a technician holding both UT tiers and a third certification
\* was scored for a UT job: one tier bonus and the breadth bonus of three.
C14_Witness ==
    /\ scorePc = "returned"
    /\ scoredJob = [jobType |-> "UT"]
    /\ certsOf(scoredTechnician) = <<"UT Level II", "UT-1", "MT">>
    /\ scored = 80

\* Technician u has as many certifications as the scored technician and the
\* same general-NDT, safety and industry keyword hits.
sameOtherwise(u) ==
    /\ Len(certsOf(u)) = Len(certsOf(scoredTechnician))
    /\ \A words \in {ndt_keywords, safety_keywords, industry_keywords} :
          holds(certsOf(u), words) <=> holds(certsOf(scoredTechnician), words)

\* Technician u earns the same bonus as the scored technician in every
\* discipline other than d.
sameOtherDisciplines(u, d) ==
    \A e \in 1..Len(Disciplines) :
       Disciplines[e] # d =>
          tierBonus(certsOf(u), jobTypeOf(scoredJob), Disciplines[e])
            = tierBonus(certsOf(scoredTechnician), jobTypeOf(scoredJob), Disciplines[e])

\* Discipline d is requested and the scored technician holds its top-tier
\* certification.
topTier(d) ==
    /\ requested(jobTypeOf(scoredJob), d)
    /\ holds(certsOf(scoredTechnician), d.top)

\* Technician u holds no certification matching discipline d.
noneMatching(u, d) == ~holds(certsOf(u), d.top \cup d.low)

\* C15 as stated: a technician with a top-tier certification matching the
\* requested discipline scores at least as much as any technician with no
\* certification matching it, given the same number of certifications and the
\* same NDT, safety and industry keyword hits.
C15_TopTierAtLeastNone ==
    (scorePc = "returned" /\ jobTypeOf(scoredJob) # "") =>
       \A n \in 1..Len(Disciplines) :
          topTier(Disciplines[n]) =>
             \A u \in ScoredTechnicians :
                (sameOtherwise(u) /\ noneMatching(u, Disciplines[n]))
                => scored >= calculateMatchScore(u, jobTypeOf(scoredJob))

\* C15 amended: the same, the two technicians also earning the same bonus in
\* every other discipline the job type names.
C15_TopTierAtLeastNoneOtherDisciplinesEqual ==
    (scorePc = "returned" /\ jobTypeOf(scoredJob) # "") =>
       \A n \in 1..Len(Disciplines) :
          topTier(Disciplines[n]) =>
             \A u \in ScoredTechnicians :
                (sameOtherwise(u) /\ noneMatching(u, Disciplines[n])
                   /\ sameOtherDisciplines(u, Disciplines[n]))
                => scored >= calculateMatchScore(u, jobTypeOf(scoredJob))

\* C15 witness: for a two-discipline job a technician with the top UT tier
\* scored strictly more than a comparable technician without any UT
\* certification.
C15_Witness ==
    /\ scorePc = "returned"
    /\ scoredJob = [jobType |-> "RT/UT"]
    /\ \E u \in ScoredTechnicians :
          /\ topTier(Disciplines[1])
          /\ sameOtherwise(u)
          /\ noneMatching(u, Disciplines[1])
          /\ sameOtherDisciplines(u, Disciplines[1])
          /\ holds(certsOf(u), Disciplines[2].top)
          /\ scored > calculateMatchScore(u, jobTypeOf(scoredJob))

(***************************************************************************)
(* Claims about reconciliation (specification SpecReconcile).              *)
(***************************************************************************)
\* The name the reply gives for the member, if it gives one.
namedAs(n) == "name" \in DOMAIN returnedMember /\ returnedMember.name = n

\* Rule 1: exact case-insensitive name match with candidate k.
nameRule(k) ==
    /\ "name" \in DOMAIN returnedMember
    /\ toLowerCase(knownTechnicians[k].name) = toLowerCase(returnedMember.name)

\* Rule 2: exact id match with candidate k.
idRule(k) == "id" \in DOMAIN returnedMember /\ knownTechnicians[k].id = returnedMember.id

\* Rule 3: one name is contained in the other.
substringRule(k) ==
    /\ "name" \in DOMAIN returnedMember
    /\ \/ includes(knownTechnicians[k].name, returnedMember.name)
       \/ includes(returnedMember.name, knownTechnicians[k].name)

\* The first candidate of the list for which rule holds, 0 when there is none.
firstBy(rule(_)) ==
    IF \E k \in 1..Len(knownTechnicians) : rule(k)
    THEN CHOOSE k \in 1..Len(knownTechnicians) :
            rule(k) /\ \A j \in 1..(k - 1) : ~rule(j)
    ELSE 0

\* The candidate the ordered rules choose, 0 when no rule matches any candidate.
chosenByRules ==
    IF firstBy(nameRule) # 0 THEN firstBy(nameRule)
    ELSE IF firstBy(idRule) # 0 THEN firstBy(idRule)
    ELSE firstBy(substringRule)

\* C16: each returned member resolves to the candidate chosen by the ordered
\* rules name, then id, then substring, a higher rule on one candidate winning
\* over a lower rule on a candidate standing earlier in the list; with a
\* candidate named "Jane Doe", the names "jane doe" and "Doe" resolve to her.
C16_ReconciliationByOrderedRules ==
    reconcilePc = "returned" =>
       /\ chosenByRules # 0 => teamMember.technician = knownTechnicians[chosenByRules]
       /\ ((namedAs("jane doe") \/ namedAs("Doe"))
             /\ \E k \in 1..Len(knownTechnicians) : knownTechnicians[k].name = "Jane Doe")
          => teamMember.technician.status # "Unknown"

\* No candidate matches the returned member by any rule.
unmatched == \A k \in 1..Len(knownTechnicians) : ~memberMatches(knownTechnicians[k], returnedMember)

\* C17: a returned member matching no candidate is kept as a member whose
\* technician has status "Unknown" and id "unknown", with the confidenceScore
\* and the reasoning returned by the AI preserved.
C17_UnmatchedKeptAsUnknown ==
    (reconcilePc = "returned" /\ unmatched) =>
       /\ teamMember.technician.status = "Unknown"
       /\ teamMember.technician.id = "unknown"
       /\ ("confidenceScore" \in DOMAIN returnedMember
             /\ returnedMember.confidenceScore \in 0..100 /\ returnedMember.confidenceScore # 0)
          => teamMember.confidenceScore = returnedMember.confidenceScore
       /\ "reasoning" \in DOMAIN returnedMember
          => teamMember.reasoning = returnedMember.reasoning

\* C18: every TeamMember built from an AI reply, matched or Unknown, has role
\* in {Lead, Specialist, Support}, any other or missing role becoming Support,
\* and confidenceScore in [0, 100] whatever score the AI returned.
C18_RoleAndScoreValid ==
    reconcilePc = "returned" =>
       /\ teamMember.role \in {"Lead", "Specialist", "Support"}
       /\ ("role" \notin DOMAIN returnedMember
             \/ returnedMember.role \notin {"Lead", "Specialist", "Support"})
          => teamMember.role = "Support"
       /\ teamMember.confidenceScore >= 0 /\ teamMember.confidenceScore <= 100

(***************************************************************************)
(* Claims about the rate limiter (specification SpecSequential) and the    *)
(* 429 cooldown (specification SpecDirectory).                             *)
(***************************************************************************)
\* In this step query q enters makeRequest: at the start of the query, for
\* the next table name after a failed probe, or again after a 429 cooldown.
entersMakeRequest(q) ==
    /\ query'[q].pc \in {"fetching", "limited"}
    /\ \/ query[q].pc \in {"idle", "settled", "cooldown"}
       \/ query[q].pc = "fetching" /\ query'[q].table # query[q].table

\* C19: sequential calls: a makeRequest that finds maxRequests calls counted in
\* the running window sends nothing and waits for the window's resetTime; when
\* the wait ends, not before resetTime, the counter is 0, a new window begins
\* and the request is sent. A makeRequest that starts after the window has
\* elapsed resets the counter and sends its request without waiting.
C19_RateLimitSequential ==
    [][LET q == "technicians" IN
       /\ entersMakeRequest(q) =>
             /\ query'[q].pc = "fetching" => rateLimiter'.requests < rateLimiter'.maxRequests
             /\ query'[q].pc = "limited" =>
                   /\ rateLimiter'.requests >= rateLimiter'.maxRequests
                   /\ query'[q].wake = rateLimiter'.resetTime
                   /\ now <= rateLimiter'.resetTime
             /\ now > rateLimiter.resetTime =>
                   /\ query'[q].pc = "fetching"
                   /\ rateLimiter'.requests = 0
                   /\ rateLimiter'.resetTime = now + windowMs
       /\ (query[q].pc = "limited" /\ query'[q].pc # "limited") =>
             /\ now >= rateLimiter.resetTime
             /\ query'[q].pc = "fetching"
             /\ rateLimiter'.requests = 0
             /\ rateLimiter'.resetTime = now + windowMs
    ]_vars

\* C19 witness: at the end of the first window a request that had waited for
\* it has been sent: the counter is 0 and the second window is open.
C19_Witness ==
    /\ query["technicians"].pc = "fetching"
    /\ query["availability"].pc = "idle"
    /\ now = windowMs
    /\ rateLimiter.requests = 0
    /\ rateLimiter.resetTime = now + windowMs

\* C20: on a 429 the client waits the fixed cooldown and then issues the same
\* request again, once: the query stays on its table name, nothing is returned
\* or raised to the caller, and the only way out of the cooldown, not before
\* it has elapsed, is through makeRequest for that same table name.
C20_CooldownThenSameRequest ==
    [][\A q \in Queries :
        /\ (query[q].pc = "fetching" /\ query'[q].pc = "cooldown") =>
              /\ throttled' = throttled + 1
              /\ query'[q].wake = now + cooldownMs
              /\ query'[q].table = query[q].table
              /\ query'[q].promise = Pending
        /\ throttled' # throttled =>
              \E p \in Queries : query[p].pc = "fetching" /\ query'[p].pc = "cooldown"
        /\ (query[q].pc = "cooldown" /\ query'[q] # query[q]) =>
              /\ now >= query[q].wake
              /\ query'[q].pc \in {"fetching", "limited"}
              /\ query'[q].table = query[q].table
              /\ query'[q].promise = Pending
    ]_vars

\* C20 witness: one 429 has been answered and, the cooldown over, both queries
\* have a request in flight for their first table name.
C20_Witness ==
    /\ throttled = 1
    /\ now >= cooldownMs
    /\ \A q \in Queries : query[q].pc = "fetching" /\ query[q].table = 1

(***************************************************************************)
(* Claims about the roles of a returned team (specification Spec).         *)
(***************************************************************************)
\* The number of members of a team that hold role Lead.
leads(members) == Cardinality({k \in 1..Len(members) : members[k].role = "Lead"})

\* C21: every team of size > 1 in a returned MatchAnalysis has exactly one
\* member with role Lead, on the AI path and on the deterministic path.
C21_ExactlyOneLead ==
    (pc = "returned" /\ ~raised /\ analysis.teamComposition.size > 1)
    => leads(analysis.teamComposition.members) = 1

\* C21, deterministic path only: the team fallbackRanking built.
C21_ExactlyOneLeadDeterministic ==
    (pc = "returned" /\ ~raised /\ analysis.teamComposition.size > 1
       /\ (~isConfigured \/ aiRankingFailed))
    => leads(analysis.teamComposition.members) = 1

(***************************************************************************)
(* Claims about the deterministic job analysis (specification              *)
(* SpecJobAnalysis).                                                       *)
(***************************************************************************)
\* C22: the deterministic job analysis is simple with at most 1 required
\* skill detected, complex with at least 3 and moderate with exactly 2;
\* estimatedDuration is a fixed function of complexity and recommendations is
\* the same list for every input.
C22_ComplexityFromSkillCount ==
    analyzePc = "returned" =>
       LET n == Len(analyzed.requiredSkills) IN
       /\ n <= 1 => analyzed.complexity = "simple"
       /\ n >= 3 => analyzed.complexity = "complex"
       /\ n = 2 <=> analyzed.complexity = "moderate"
       /\ analyzed.estimatedDuration
            = (CASE analyzed.complexity = "simple" -> "2-4 hours"
                 [] analyzed.complexity = "moderate" -> "Half day"
                 [] analyzed.complexity = "complex" -> "Full day")
       /\ analyzed.recommendations = <<"Verify technician certifications are current",
                                       "Confirm equipment availability",
                                       "Review safety protocols for location">>

\* C22 witness: a job of type UT without description: one detection, two
\* required skills, complexity moderate.
C22_Witness ==
    /\ analyzePc = "returned"
    /\ analyzedJob = [jobType |-> "UT", bodyPlain |-> ""]
    /\ analyzed.requiredSkills = <<"UT Level I", "UT Level II">>
    /\ analyzed.complexity = "moderate"

(***************************************************************************)
(* Claims about concurrent directory requests (specification               *)
(* SpecDirectory).                                                         *)
(***************************************************************************)
\* The requests whose fetch has been sent and not yet answered.
inFlight == Cardinality({q \in Queries : query[q].pc = "fetching"})

\* C23: with the two queries of findAvailableTechnicians in flight together,
\* the requests issued within one rate-limit window are never more than
\* maxRequests. Before windowMs has passed the first window is still running,
\* so the requests counted and the requests in flight were all issued in it.
C23_IssuedWithinLimit ==
    now < windowMs => rateLimiter.requests + inFlight <= rateLimiter.maxRequests

(***************************************************************************)
(* Claims about the failed AI ranking call (specification Spec).           *)
(***************************************************************************)
\* The ranking request was answered with a failure: a network error, a
\* non-2xx status, a body that is not JSON, a block that is not text, text
\* that is not JSON, or JSON without recommendedTeam or without its members.
rankingCallFailed ==
    /\ rankReply # NoReply
    /\ \/ rankReply.kind # "json"
       \/ "recommendedTeam" \notin DOMAIN rankReply.json
       \/ "members" \notin DOMAIN rankReply.json.recommendedTeam

\* C24: for every failure of the AI ranking call rankTechnicians returns
\* exactly what fallbackRanking gives for the same job and candidates, and the
\* call has sent one ranking request, never a second one.
C24_FailureEqualsFallback ==
    rankingCallFailed
    => /\ teamRankingP = settled(fallbackRanking(jobDetails, availableTechnicians))
       /\ teamRankingP.state = "fulfilled"
       /\ requests.rank = 1

\* C24 witness: the ranking request met a network error and rankTechnicians
\* returned a team of two.
C24_Witness ==
    /\ rankReply = [kind |-> "network"]
    /\ teamRankingP.state = "fulfilled"
    /\ Len(teamRankingP.value.recommendedTeam.members) = 2
    /\ requests.rank = 1

rankedTeam == rankingPc = "returned" /\ ~ranking.threw

\* The role the stated rule gives the member at 1-based position k of a team
\* of the given size.
ruleRole(member, k, size) ==
    IF k = 1 THEN (IF size > 1 THEN "Lead" ELSE member.role)
    ELSE IF member.confidenceScore > 70 THEN "Specialist" ELSE "Support"

\* C26: in the deterministic team the first member is Lead if and only if the
\* resolved teamSize, the requested size clamped to the candidate count, is
\* greater than 1; every later member is Specialist if its score is strictly
\* greater than 70 and Support otherwise.
C26_DeterministicRoles ==
    rankedTeam =>
       LET members == ranking.value.recommendedTeam.members
           teamSize == Min(requiredTeamSizeOf(rankingJob), Len(rankingCandidates))
       IN /\ Len(members) >= 1 => (members[1].role = "Lead" <=> teamSize > 1)
          /\ \A k \in 2..Len(members) :
                members[k].role = ruleRole(members[k], k, teamSize)

\* C26 with the requested size in place of the resolved teamSize.
C26_DeterministicRolesRequestedSize ==
    rankedTeam =>
       LET members == ranking.value.recommendedTeam.members
           requiredTeamSize == requiredTeamSizeOf(rankingJob)
       IN /\ Len(members) >= 1 => (members[1].role = "Lead" <=> requiredTeamSize > 1)
          /\ \A k \in 2..Len(members) :
                members[k].role = ruleRole(members[k], k, requiredTeamSize)

\* The candidates in the order fallbackRanking ranks them.
rankedCandidates ==
    sortDesc(rankingCandidates, LAMBDA t : fallbackScore(rankingJob, t))

\* C27: for n ranked candidates and team size s the deterministic path gives
\* min(2, max(0, n - s)) alternative teams; alternative k is the window of s
\* consecutive ranked candidates starting at 0-based rank k, with s members
\* and size s.
C27_AlternativeWindows ==
    rankedTeam =>
       LET n == Len(rankingCandidates)
           s == Min(requiredTeamSizeOf(rankingJob), n)
           alternativeTeams == ranking.value.alternativeTeams
       IN /\ Len(alternativeTeams) = Min(2, Max(0, n - s))
          /\ \A k \in 1..Len(alternativeTeams) :
                /\ alternativeTeams[k].size = s
                /\ Len(alternativeTeams[k].members) = s
                /\ \A i \in 1..s :
                      alternativeTeams[k].members[i].technician.id
                        = rankedCandidates[k + i].technician.id

\* C27 witness: five candidates ranked Ann, Ben, Cy, Dee, Eve and a team of
\* three: the alternatives are [Ben, Cy, Dee] and [Cy, Dee, Eve].
C27_Witness ==
    /\ rankedTeam
    /\ requiredTeamSizeOf(rankingJob) = 3
    /\ [k \in 1..Len(rankedCandidates) |-> rankedCandidates[k].technician.Name]
         = <<"Ann", "Ben", "Cy", "Dee", "Eve">>
    /\ [k \in 1..Len(ranking.value.alternativeTeams) |->
          [i \in 1..3 |-> ranking.value.alternativeTeams[k].members[i].technician.name]]
         = << <<"Ben", "Cy", "Dee">>, <<"Cy", "Dee", "Eve">> >>

\* C28: every deterministic alternative team is role-assigned by the rule of
\* the primary team: the first member is Lead when the team size is greater
\* than 1, every later member is Specialist if its score is greater than 70
\* and Support otherwise.
C28_AlternativeRoles ==
    rankedTeam =>
       \A a \in 1..Len(ranking.value.alternativeTeams) :
          LET team == ranking.value.alternativeTeams[a] IN
          \A k \in 1..Len(team.members) :
             team.members[k].role = ruleRole(team.members[k], k, team.size)

(***************************************************************************)
(* Claims about the probing of table names (specification SpecDirectory).  *)
(***************************************************************************)
\* C29: a query probes its table names strictly in order, the configured name
\* first when there is one and then the fixed defaults; it moves to the next
\* name only from a request that failed, returns the records of the first
\* request that succeeds, be they none, and then requests nothing more; it
\* returns without a success only after the last name failed.
C29_ProbesInOrder ==
    /\ [](\A q \in Queries :
            possibleTableNames(q)
              = (IF tableEnv[q] # "" THEN <<tableEnv[q]>> ELSE <<>>) \o defaultTableNames(q))
    /\ [][\A q \in Queries :
            /\ (query[q].pc = "idle" /\ query'[q].pc # "idle") => query'[q].table = 1
            /\ (query'[q].table # query[q].table) =>
                  /\ query[q].pc = "fetching"
                  /\ \/ query'[q].table = query[q].table + 1
                           /\ query'[q].pc \in {"fetching", "limited"}
                     \/ query'[q].pc = "settled"
            /\ (query[q].pc = "fetching" /\ query'[q].pc = "settled") =>
                  /\ query'[q].promise.state = "fulfilled"
                  /\ query'[q].served = 0 =>
                        /\ query[q].table = Len(possibleTableNames(q))
                        /\ query'[q].promise.value = <<>>
            /\ query[q].pc = "settled" => query'[q] = query[q]
         ]_vars

\* C29 witness: with a table name configured, the first request of the
\* technician query succeeded with zero records and the query returned them
\* while the availability query was still on its first name.
C29_Witness ==
    /\ tableEnv["technicians"] = "Crew"
    /\ query["technicians"].pc = "settled"
    /\ query["technicians"].served = 1
    /\ query["technicians"].promise = Fulfilled(<<>>)
    /\ query["availability"].pc = "fetching" /\ query["availability"].table = 1
    /\ rateLimiter.requests = 1
    /\ now = 0

(***************************************************************************)
(* Claims about the Logger (specification SpecLogger).                     *)
(***************************************************************************)
\* The buffer holds at most maxLogs entries, the most recently appended ones
\* in append order.
bufferHoldsNewest ==
    /\ Len(logs) <= maxLogs
    /\ \A k \in 1..Len(logs) : logs[k].timestamp = appended - Len(logs) + k

\* What getLogs returned last is ordered newest first.
gotNewestFirst ==
    \A k \in 1..(Len(gotLogs) - 1) : gotLogs[k].timestamp = gotLogs[k + 1].timestamp + 1

\* C30: after any sequence of info, warn, error, debug and clearLogs calls the
\* buffer holds at most maxLogs entries, the most recently appended ones in
\* append order; getLogs(limit) returns at most limit entries, newest first.
C30_LogBuffer ==
    /\ bufferHoldsNewest
    /\ Len(gotLogs) <= gotLimit
    /\ gotNewestFirst

\* C30 for limits of at least 1.
C30_LogBufferPositiveLimit ==
    /\ bufferHoldsNewest
    /\ gotLimit >= 1 => Len(gotLogs) <= gotLimit
    /\ gotNewestFirst

====
